---------------------------- MODULE Spec2Model ----------------------------
(***************************************************************************)
(* A model of the Azure DevOps documentation tooling of the repository:    *)
(*   documentation/ADO/generate_documentation.py  (hierarchy, cleaner,     *)
(*                                                 sections, renderer)     *)
(*   documentation/ADO/ADO_Update.py              (change detector)        *)
(* of the movie request handler, lambda_handler.py, and of the Lambda      *)
(* handlers of src/src (profile settings, subscription, watchlist, the     *)
(* central router, profile AI).                                            *)
(* Texts are sequences of one-character strings; directories and mappings  *)
(* are functions; Python's None is the empty tuple where it can meet an    *)
(* integer and the token None where it can meet a string.                  *)
(***************************************************************************)
EXTENDS Integers, Sequences, FiniteSets, TLC

VARIABLES
    items,      \* generate_documentation: the id -> WorkItem mapping
    order,      \* iteration order of the mapping (os.listdir order)
    roots,      \* the list build_hierarchy returned last
    runs,       \* build_hierarchy passes over the mapping since it was loaded
    prev,       \* what the pass before the last returned (roots, children)
    download,   \* ADO_Update: the download directory, file -> record
    snapshot,   \* the snapshot directory, file -> record
    listing,    \* the os.listdir order detect_changes iterated in
    changes,    \* the list detect_changes returned last
    edits,      \* local edits made to the download directory so far
    detected,   \* whether changes is the result for the directories as they are
    text,       \* clean_html: the raw rich-text field
    outs,       \* results of successive clean_html applications to it
    content,    \* format_section_content: the content argument
    indent,     \* the indent argument
    normalized, \* what clean_markdown_headers returned for content, if any
    section,    \* what format_section_content returned, if any
    records,    \* generate_documentation: the files of the download directory
    node,       \* format_work_item: the item of the last call
    level,      \* the level of the last call
    block,      \* what the last call returned
    doc,        \* the text written to Requirements.md
    event,      \* lambda_handler: the event argument
    api,        \* how the movie API answers a request
    response,   \* what lambda_handler returned, if called
    remote,     \* ADO_Fetch / ADO_Update: the work items on the server
    mains,      \* runs of ADO_Fetch.main and ADO_Update.main so far
    fetches,    \* runs of ADO_Fetch.main so far, refresh runs included
    fetched,    \* how the last run of ADO_Fetch.main ended
    answer,     \* ADO_Update.main: what the operator typed at the prompt
    calls,      \* the update_work_item calls of that run, in order
    printed,    \* the closing message of that run
    refreshed,  \* whether that run started ADO_Fetch.py
    settings_table, \* profile settings: PROFILE_SETTINGS_TABLE, key -> item
    pins,       \* the pin of the last successful setProfilePin, per profile
    reply,      \* what the last operation handler returned
    requests,   \* operations handled so far
    subscription_table, \* subscriptions: SUBSCRIPTION_TABLE, id -> item
    lambda_name,    \* the Lambda whose lambda_handler ran last
    api_event,      \* the event it was given
    store_raised,   \* whether the store raised during that invocation
    handler_result, \* what the operation handler returned, if one ran
    http_response,  \* what lambda_handler returned
    invocations,    \* invocations so far
    ai_table,   \* profile AI: PROFILE_AI_TABLE, profile -> item
    clock,      \* the time datetime.utcnow() read last
    recorded,   \* the entry of the last feedback recorded, per profile
    feedback_result, \* what the last feedback call returned
    feedbacks   \* provideRecommendationFeedback calls so far

vars == <<items, order, roots, runs, prev, download, snapshot, listing,
          changes, edits, detected, text, outs, content, indent,
          normalized, section, records, node, level, block, doc, event, api,
          response, remote, mains, fetches, fetched, answer, calls,
          printed, refreshed, settings_table, pins, reply, requests,
          subscription_table, lambda_name, api_event, store_raised,
          handler_result, http_response, invocations, ai_table, clock,
          recorded, feedback_result, feedbacks>>

hvars == <<items, order, roots, runs, prev>>
dvars == <<download, snapshot, listing, changes, edits, detected>>
cvars == <<text, outs>>
svars == <<content, indent, normalized, section>>
rvars == <<records, node, level, block, doc>>
lvars == <<event, api, response>>
uvars == <<remote, mains, fetches, fetched, answer, calls, printed, refreshed>>
\* The variables of the tools and services modelled further down.
pvars == <<settings_table, pins, reply, requests>>
avars == <<subscription_table, lambda_name, api_event, store_raised,
           handler_result, http_response, invocations>>
fvars == <<ai_table, clock, recorded, feedback_result, feedbacks>>
mvars == <<uvars, pvars, avars, fvars>>

\* ------------------------------------------------------------ bounds
MaxId == 3
MaxRuns == 2
MaxFiles == 2
MaxEdits == 3
MaxChunks == 3
MaxPasses == 2
MaxParts == 4
MaxItems == 3

\* ----------------------------------------------------------- helpers
Range(s) == {s[i] : i \in 1..Len(s)}

\* os.listdir returns the names in arbitrary order; the model lists a set of
\* integers in ascending or in descending order.
RECURSIVE Ascending(_)
Ascending(S) ==
    IF S = {} THEN <<>>
    ELSE LET m == CHOOSE x \in S : \A y \in S : x <= y
         IN <<m>> \o Ascending(S \ {m})

Reverse(s) == [i \in 1..Len(s) |-> s[Len(s) + 1 - i]]

ListingOrders(S) == {Ascending(S), Reverse(Ascending(S))}

\* Python's ordering of tuples of integers: lexicographic.
RECURSIVE TupleLess(_, _)
TupleLess(a, b) ==
    IF a = <<>> THEN b # <<>>
    ELSE IF b = <<>> THEN FALSE
    ELSE IF a[1] # b[1] THEN a[1] < b[1]
    ELSE TupleLess(Tail(a), Tail(b))

\* Python list.sort(key=...): a stable sort, as an insertion sort that puts
\* an element after every element whose key is not greater. key maps an
\* element to its key tuple.
RECURSIVE InsertByKey(_, _, _)
InsertByKey(s, x, key) ==
    IF s = <<>> THEN <<x>>
    ELSE IF TupleLess(key[x], key[s[1]]) THEN <<x>> \o s
    ELSE <<s[1]>> \o InsertByKey(Tail(s), x, key)

RECURSIVE SortByKey(_, _)
SortByKey(s, key) ==
    IF s = <<>> THEN <<>>
    ELSE InsertByKey(SortByKey(SubSeq(s, 1, Len(s) - 1), key), s[Len(s)], key)

\* ------------------------------------------------- Hierarchy Builder
ItemIds == 1..MaxId

\* A parent id that no loaded item has.
MissingId == MaxId + 1

NoParent == <<>>

ParentIds == {NoParent} \cup {<<p>> : p \in ItemIds \cup {MissingId}}

Types == {"Feature", "User Story", "Task", "Bug"}

WorkItem == [id : ItemIds, type : Types, parent_id : ParentIds,
             children : Seq(ItemIds)]

\* type_order with the ranks of User Story and Task exchanged.
type_order_Swapped(t) ==
    CASE t = "Feature" -> 1
      [] t = "User Story" -> 3
      [] t = "Task" -> 2
      [] OTHER -> 99

\* type_order.get(x.type, 99)
type_order(t) ==
    CASE t = "Feature" -> 1
      [] t = "User Story" -> 2
      [] t = "Task" -> 3
      [] OTHER -> 99

\* Truth value of `item.parent_id`: None and 0 are falsy.
ParentIdTruthy(p) == p # NoParent /\ p[1] # 0

\* FirstPass with every item appended to the roots, parent or not.
RECURSIVE FirstPass_AllRoots(_, _, _)
FirstPass_AllRoots(its, ord, rts) ==
    IF ord = <<>> THEN [items |-> its, roots |-> rts]
    ELSE LET item == its[ord[1]] IN
         IF ParentIdTruthy(item.parent_id) /\ item.parent_id[1] \in DOMAIN its
         THEN LET p == item.parent_id[1] IN
              FirstPass_AllRoots(
                  [its EXCEPT ![p].children = Append(@, item.id)],
                  Tail(ord), Append(rts, item.id))
         ELSE FirstPass_AllRoots(its, Tail(ord), Append(rts, item.id))

\* First pass of build_hierarchy over the items in iteration order: returns
\* the mapping with the children appended and the roots list.
RECURSIVE FirstPass(_, _, _)
FirstPass(its, ord, rts) ==
    IF ord = <<>> THEN [items |-> its, roots |-> rts]
    ELSE LET item == its[ord[1]] IN
         IF ParentIdTruthy(item.parent_id)
         THEN IF item.parent_id[1] \in DOMAIN its
              THEN LET p == item.parent_id[1] IN
                   FirstPass([its EXCEPT ![p].children = Append(@, item.id)],
                             Tail(ord), rts)
              ELSE FirstPass(its, Tail(ord), rts)
         ELSE FirstPass(its, Tail(ord), Append(rts, item.id))

\* key=lambda x: x.id
RootKey(its) == [i \in DOMAIN its |-> <<its[i].id>>]

SortRoots(rts, key) == SortByKey(rts, key)

\* key=lambda x: (type_order.get(x.type, 99), x.id)
ChildKey(its) == [i \in DOMAIN its |-> <<type_order(its[i].type), its[i].id>>]

SortChildren(ch, key) == SortByKey(ch, key)

\* Second loop of build_hierarchy: every item's children list is sorted.
SortPass(its, key) ==
    [i \in DOMAIN its |-> [its[i] EXCEPT !.children = SortChildren(@, key)]]

build_hierarchy(its, ord) ==
    LET fp == FirstPass(its, ord, <<>>)
        key == ChildKey(fp.items) IN
    [items |-> SortPass(fp.items, key),
     roots |-> SortRoots(fp.roots, RootKey(fp.items))]

\* load_work_items: every record of the directory becomes a WorkItem with
\* an empty children list.
load_work_items(its) == [i \in DOMAIN its |-> [its[i] EXCEPT !.children = <<>>]]

NoResult == [roots |-> <<>>, children |-> <<>>, valid |-> FALSE]

Result(its, rts) ==
    [roots |-> rts, children |-> [i \in DOMAIN its |-> its[i].children],
     valid |-> TRUE]

IdleU == /\ remote = <<>> /\ mains = 0 /\ fetches = 0 /\ fetched = "idle"
         /\ answer = "" /\ calls = <<>> /\ printed = <<>>
         /\ refreshed = FALSE

IdleP == /\ settings_table = <<>> /\ pins = <<>> /\ reply = <<>>
         /\ requests = 0

IdleA == /\ subscription_table = <<>> /\ lambda_name = ""
         /\ api_event = <<>> /\ store_raised = FALSE
         /\ handler_result = <<>> /\ http_response = <<>>
         /\ invocations = 0

IdleF == /\ ai_table = <<>> /\ clock = 0 /\ recorded = <<>>
         /\ feedback_result = <<>> /\ feedbacks = 0

IdleM == IdleU /\ IdleP /\ IdleA /\ IdleF

IdleD == /\ download = <<>> /\ snapshot = <<>> /\ listing = <<>>
         /\ changes = <<>> /\ edits = 0 /\ detected = FALSE

IdleC == text = <<>> /\ outs = <<>>

IdleS == /\ content = <<>> /\ indent = <<>> /\ normalized = <<>>
         /\ section = <<>>

IdleR == /\ records = <<>> /\ node = 0 /\ level = 0 /\ block = <<>>
         /\ doc = <<>>

IdleL == event = <<>> /\ api = <<>> /\ response = <<>>

InitHierarchy ==
    /\ \E ty \in [ItemIds -> Types], pa \in [ItemIds -> ParentIds] :
          items = [i \in ItemIds |->
                      [id |-> i, type |-> ty[i], parent_id |-> pa[i],
                       children |-> <<>>]]
    /\ order \in ListingOrders(ItemIds)
    /\ roots = <<>>
    /\ runs = 0
    /\ prev = NoResult
    /\ IdleD /\ IdleC /\ IdleS /\ IdleR /\ IdleL /\ IdleM

\* generate_documentation, line 208: the directory is read again; every
\* children list starts empty.
LoadWorkItems ==
    /\ runs > 0
    /\ items' = load_work_items(items)
    /\ roots' = <<>>
    /\ runs' = 0
    /\ prev' = NoResult
    /\ UNCHANGED <<mvars, order, dvars, cvars, svars, rvars,
                 lvars>>

\* One call of build_hierarchy on the mapping as it stands.
BuildHierarchy ==
    /\ runs < MaxRuns
    /\ \E r \in {build_hierarchy(items, order)} :
          /\ items' = r.items
          /\ roots' = r.roots
    /\ runs' = runs + 1
    /\ prev' = IF runs = 0 THEN NoResult ELSE Result(items, roots)
    /\ UNCHANGED <<mvars, order, dvars, cvars, svars, rvars,
                 lvars>>

NextHierarchy == LoadWorkItems \/ BuildHierarchy

SpecHierarchy == InitHierarchy /\ [][NextHierarchy]_vars

\* --------------------------------------- Snapshot & Change Detector
\* Python's None (a JSON null, or what dict.get gives for an absent key).
\* Field values are strings; None is a token no field value equals.
None == "None"

TrackedFields ==
    {"System.Title", "System.Description",
     "Microsoft.VSTS.Common.AcceptanceCriteria", "System.State",
     "Microsoft.VSTS.Common.Priority"}

\* A field ADO returns that get_important_fields leaves out.
UntrackedFields == {"System.Tags"}

FieldNames == TrackedFields \cup UntrackedFields

\* The values a local edit may give a field.
FieldValues(n) ==
    CASE n = "System.Title" -> {"A", "B"}
      [] n = "System.State" -> {"New", "Done"}
      [] OTHER -> {"x"}

\* Files of the directories: 1..MaxFiles were written by the last fetch,
\* NewFile is a work item file created locally, TextFile a file whose name
\* does not end in '.json'.
FetchedFiles == 1..MaxFiles
NewFile == MaxFiles + 1
TextFile == 0
JsonFiles == FetchedFiles \cup {NewFile}

\* filename.endswith('.json')
EndsWithJson(f) == f # TextFile

\* The id stored in file f.
IdOf(f) == 9 + f

\* The record the fetch stored for a work item: a title and a state.
FetchedRecord(f) ==
    [id |-> IdOf(f),
     fields |-> [n \in {"System.Title", "System.State"} |->
                    IF n = "System.Title" THEN "A" ELSE "Done"]]

\* dict.get(key), which is None for an absent key
Get(d, key) == IF key \in DOMAIN d THEN d[key] ELSE None

\* data.get('fields', {})
FieldsOf(data) == IF "fields" \in DOMAIN data THEN data.fields ELSE <<>>

\* get_important_fields extended to every field of the record's schema.
get_important_fields_All(data) ==
    [n \in FieldNames |-> Get(FieldsOf(data), n)]

get_important_fields(data) ==
    [n \in TrackedFields |-> Get(FieldsOf(data), n)]

\* The record for a new file built from the fields the file holds only.
NewItemChange_PresentOnly(current_data) ==
    [id |-> current_data.id,
     changes |-> [n \in TrackedFields \cap DOMAIN FieldsOf(current_data) |->
                     FieldsOf(current_data)[n]]]

\* Lines 45-48: the record appended for a file with no snapshot counterpart.
NewItemChange(current_data) ==
    [id |-> current_data.id, changes |-> get_important_fields(current_data)]

\* FieldChanges recording the snapshot's value of a differing field.
FieldChanges_SnapshotValue(current_data, snapshot_data) ==
    LET current_fields == get_important_fields(current_data)
        snapshot_fields == get_important_fields(snapshot_data)
        differ == {n \in DOMAIN current_fields :
                      current_fields[n] # Get(snapshot_fields, n)}
    IN [n \in differ |-> Get(snapshot_fields, n)]

\* FieldChanges reporting every tracked field once any of them differs.
FieldChanges_NoFilter(current_data, snapshot_data) ==
    LET current_fields == get_important_fields(current_data)
        snapshot_fields == get_important_fields(snapshot_data)
    IN IF \E n \in DOMAIN current_fields :
             current_fields[n] # Get(snapshot_fields, n)
       THEN current_fields
       ELSE <<>>

\* Lines 56-62: the fields whose current value differs from the snapshot's,
\* each with its current value.
FieldChanges(current_data, snapshot_data) ==
    LET current_fields == get_important_fields(current_data)
        snapshot_fields == get_important_fields(snapshot_data)
        differ == {n \in DOMAIN current_fields :
                      current_fields[n] # Get(snapshot_fields, n)}
    IN [n \in differ |-> current_fields[n]]

\* detect_changes inserting each record at the front of the list.
RECURSIVE detect_changes_Prepend(_, _, _)
detect_changes_Prepend(dl, sn, ls) ==
    IF ls = <<>> THEN <<>>
    ELSE LET f == ls[1]
             rest == detect_changes_Prepend(dl, sn, Tail(ls))
         IN IF ~EndsWithJson(f) THEN rest
            ELSE IF f \notin DOMAIN sn THEN rest \o <<NewItemChange(dl[f])>>
            ELSE LET field_changes == FieldChanges(dl[f], sn[f]) IN
                 IF DOMAIN field_changes # {}
                 THEN rest \o <<[id |-> dl[f].id, changes |-> field_changes]>>
                 ELSE rest

\* The loop of detect_changes over the listing ls of the download directory.
RECURSIVE detect_changes(_, _, _)
detect_changes(dl, sn, ls) ==
    IF ls = <<>> THEN <<>>
    ELSE LET f == ls[1]
             rest == detect_changes(dl, sn, Tail(ls))
         IN IF ~EndsWithJson(f) THEN rest
            ELSE IF f \notin DOMAIN sn THEN <<NewItemChange(dl[f])>> \o rest
            ELSE LET field_changes == FieldChanges(dl[f], sn[f]) IN
                 IF DOMAIN field_changes # {}
                 THEN <<[id |-> dl[f].id, changes |-> field_changes]>> \o rest
                 ELSE rest

IdleH == /\ items = <<>> /\ order = <<>> /\ roots = <<>> /\ runs = 0
         /\ prev = NoResult

\* The directories as ADO_Fetch.main leaves them: the snapshot is a copy of
\* the download directory.
InitChanges ==
    /\ download = [f \in FetchedFiles |-> FetchedRecord(f)]
    /\ snapshot = download
    /\ listing = <<>>
    /\ changes = <<>>
    /\ edits = 0
    /\ detected = FALSE
    /\ IdleH /\ IdleC /\ IdleS /\ IdleR /\ IdleL /\ IdleM

Stale == listing' = <<>> /\ changes' = <<>> /\ detected' = FALSE

\* The operator edits a work item file of the download directory: one
\* field gets a value or a null.
EditField ==
    /\ edits < MaxEdits
    /\ \E f \in DOMAIN download \cap JsonFiles, n \in FieldNames :
         \E v \in FieldValues(n) \cup {None} :
            /\ Get(download[f].fields, n) # v \/ n \notin DOMAIN download[f].fields
            /\ download' = [download EXCEPT ![f].fields =
                               [m \in DOMAIN @ \cup {n} |->
                                   IF m = n THEN v ELSE @[m]]]
    /\ edits' = edits + 1
    /\ Stale
    /\ UNCHANGED <<mvars, snapshot, hvars, cvars, svars, rvars,
                 lvars>>

\* The operator deletes a field from a work item file.
RemoveField ==
    /\ edits < MaxEdits
    /\ \E f \in DOMAIN download \cap JsonFiles :
         \E n \in DOMAIN download[f].fields :
            download' = [download EXCEPT ![f].fields =
                            [m \in DOMAIN @ \ {n} |-> @[m]]]
    /\ edits' = edits + 1
    /\ Stale
    /\ UNCHANGED <<mvars, snapshot, hvars, cvars, svars, rvars,
                 lvars>>

\* A file appears in the download directory: a new work item file, or a
\* file that is not JSON.
AddFile ==
    /\ edits < MaxEdits
    /\ \E f \in {NewFile, TextFile} \ DOMAIN download :
         download' = [g \in DOMAIN download \cup {f} |->
                         IF g = f THEN FetchedRecord(f) ELSE download[g]]
    /\ edits' = edits + 1
    /\ Stale
    /\ UNCHANGED <<mvars, snapshot, hvars, cvars, svars, rvars,
                 lvars>>

\* A file of the download directory is deleted.
DeleteFile ==
    /\ edits < MaxEdits
    /\ \E f \in DOMAIN download :
         download' = [g \in DOMAIN download \ {f} |-> download[g]]
    /\ edits' = edits + 1
    /\ Stale
    /\ UNCHANGED <<mvars, snapshot, hvars, cvars, svars, rvars,
                 lvars>>

\* ADO_Update.main, line 99: one call of detect_changes.
DetectChanges ==
    /\ ~detected
    /\ \E ls \in ListingOrders(DOMAIN download) :
          /\ listing' = ls
          /\ changes' = detect_changes(download, snapshot, ls)
    /\ detected' = TRUE
    /\ UNCHANGED <<mvars, download, snapshot, edits, hvars, cvars, svars, rvars,
                 lvars>>

NextChanges ==
    EditField \/ RemoveField \/ AddFile \/ DeleteFile \/ DetectChanges

SpecChanges == InitChanges /\ [][NextChanges]_vars

\* --------------------------------------------------- Content Cleaner
\* A text is a sequence of one-character strings.
StartsWith(t, pat) == Len(t) >= Len(pat) /\ SubSeq(t, 1, Len(pat)) = pat

Drop(t, n) == SubSeq(t, n + 1, Len(t))

\* Position of the first occurrence of character c in t, 0 when there is none.
RECURSIVE IndexOf(_, _, _)
IndexOf(t, c, from) ==
    IF from > Len(t) THEN 0
    ELSE IF t[from] = c THEN from
    ELSE IndexOf(t, c, from + 1)

\* re.sub(r'<[^>]+>', '', text): at a '<', the match runs to the first '>'
\* after it and needs at least one character between the two.
RECURSIVE StripTags(_)
StripTags(t) ==
    IF t = <<>> THEN <<>>
    ELSE IF t[1] = "<"
         THEN LET close == IndexOf(t, ">", 2) IN
              IF close > 2 THEN StripTags(Drop(t, close))
              ELSE <<t[1]>> \o StripTags(Tail(t))
         ELSE <<t[1]>> \o StripTags(Tail(t))

\* str.replace(old, new): every occurrence, left to right, not overlapping.
RECURSIVE Replace(_, _, _)
Replace(t, old, new) ==
    IF t = <<>> THEN <<>>
    ELSE IF StartsWith(t, old) THEN new \o Replace(Drop(t, Len(old)), old, new)
    ELSE <<t[1]>> \o Replace(Tail(t), old, new)

\* The entities dict of clean_html, in its insertion order.
entities ==
    << <<<<"&", "n", "b", "s", "p", ";">>, <<" ">>>>,
       <<<<"&", "a", "m", "p", ";">>, <<"&">>>>,
       <<<<"&", "l", "t", ";">>, <<"<">>>>,
       <<<<"&", "g", "t", ";">>, <<">">>>>,
       <<<<"&", "q", "u", "o", "t", ";">>, <<"\"">>>>,
       <<<<"&", "#", "3", "9", ";">>, <<"'">>>> >>

\* for entity, char in entities.items(): text = text.replace(entity, char)
RECURSIVE ReplaceEntities(_, _)
ReplaceEntities(t, k) ==
    IF k > Len(entities) THEN t
    ELSE ReplaceEntities(Replace(t, entities[k][1], entities[k][2]), k + 1)

Digits == {"0", "1", "2", "3", "4", "5", "6", "7", "8", "9"}

DigitValue(c) ==
    CASE c = "0" -> 0 [] c = "1" -> 1 [] c = "2" -> 2 [] c = "3" -> 3
      [] c = "4" -> 4 [] c = "5" -> 5 [] c = "6" -> 6 [] c = "7" -> 7
      [] c = "8" -> 8 [] c = "9" -> 9

\* int(m.group(1)) for a string of decimal digits
RECURSIVE IntOf(_, _)
IntOf(ds, acc) ==
    IF ds = <<>> THEN acc ELSE IntOf(Tail(ds), 10 * acc + DigitValue(ds[1]))

\* Number of leading digits of t.
RECURSIVE DigitRun(_)
DigitRun(t) ==
    IF t = <<>> \/ t[1] \notin Digits THEN 0 ELSE 1 + DigitRun(Tail(t))

\* sys.maxunicode: chr raises ValueError above it.
MaxCodePoint == 1114111

\* chr(n) for the code points of the model's alphabet; every other valid
\* code point is a character that is neither markup nor white space.
Chr(n) ==
    CASE n = 10 -> "\n"
      [] n = 32 -> " "
      [] n = 35 -> "#"
      [] n = 38 -> "&"
      [] n = 39 -> "'"
      [] n = 59 -> ";"
      [] n = 60 -> "<"
      [] n = 62 -> ">"
      [] n = 98 -> "b"
      [] OTHER -> "?"

\* Length of the match of r'&#(\d+);' at the start of t, 0 when none.
NumericMatch(t) ==
    IF StartsWith(t, <<"&", "#">>)
    THEN LET n == DigitRun(Drop(t, 2)) IN
         IF n > 0 /\ Len(t) >= n + 3 /\ t[n + 3] = ";" THEN n + 3 ELSE 0
    ELSE 0

\* re.sub(r'&#(\d+);', lambda m: chr(int(m.group(1))), text)
RECURSIVE NumericEntities(_)
NumericEntities(t) ==
    IF t = <<>> THEN <<>>
    ELSE LET m == NumericMatch(t) IN
         IF m > 0
         THEN <<Chr(IntOf(SubSeq(t, 3, m - 1), 0))>> \o NumericEntities(Drop(t, m))
         ELSE <<t[1]>> \o NumericEntities(Tail(t))

\* Whether chr raises ValueError for some numeric entity of t.
RECURSIVE NumericRaises(_)
NumericRaises(t) ==
    IF t = <<>> THEN FALSE
    ELSE LET m == NumericMatch(t) IN
         IF m > 0
         THEN \/ IntOf(SubSeq(t, 3, m - 1), 0) > MaxCodePoint
              \/ NumericRaises(Drop(t, m))
         ELSE NumericRaises(Tail(t))

\* str.split(sep) for a non-empty separator: a list of texts.
RECURSIVE SplitAcc(_, _, _)
SplitAcc(t, sep, cur) ==
    IF t = <<>> THEN <<cur>>
    ELSE IF StartsWith(t, sep) THEN <<cur>> \o SplitAcc(Drop(t, Len(sep)), sep, <<>>)
    ELSE SplitAcc(Tail(t), sep, Append(cur, t[1]))

Split(t, sep) == SplitAcc(t, sep, <<>>)

\* str.splitlines(): the lines of t, without a last empty line. The only
\* line boundary of the model's alphabet is "\n".
splitlines(t) ==
    IF t = <<>> THEN <<>>
    ELSE LET parts == Split(t, <<"\n">>) IN
         IF parts[Len(parts)] = <<>> THEN SubSeq(parts, 1, Len(parts) - 1)
         ELSE parts

WhiteSpace == {" ", "\n", "\t"}

RECURSIVE lstrip(_)
lstrip(t) == IF t # <<>> /\ t[1] \in WhiteSpace THEN lstrip(Tail(t)) ELSE t

RECURSIVE rstrip(_)
rstrip(t) ==
    IF t # <<>> /\ t[Len(t)] \in WhiteSpace
    THEN rstrip(SubSeq(t, 1, Len(t) - 1))
    ELSE t

\* str.strip()
strip(t) == rstrip(lstrip(t))

\* sep.join(parts)
RECURSIVE Join(_, _)
Join(parts, sep) ==
    IF parts = <<>> THEN <<>>
    ELSE IF Len(parts) = 1 THEN parts[1]
    ELSE parts[1] \o sep \o Join(Tail(parts), sep)

NonEmpty(t) == t # <<>>

\* Lines 97-98: the stripped, non-empty lines of a paragraph.
CleanLines(para) ==
    LET ls == splitlines(para) IN
    SelectSeq([k \in 1..Len(ls) |-> strip(ls[k])], NonEmpty)

\* Lines 93-101: paragraphs split on "\n\n", each joined with single spaces,
\* the empty ones dropped, the rest joined with "\n\n".
NormalizeWhitespace(t) ==
    LET paragraphs == Split(t, <<"\n", "\n">>)
        cleaned == [k \in 1..Len(paragraphs) |->
                       Join(CleanLines(paragraphs[k]), <<" ">>)]
    IN Join(SelectSeq(cleaned, NonEmpty), <<"\n", "\n">>)

\* What a call that raised ValueError leaves in place of a text.
ValueError == <<"ValueError">>

clean_html(t) ==
    IF t = <<>> THEN <<>>
    ELSE LET decoded == ReplaceEntities(StripTags(t), 1) IN
         IF NumericRaises(decoded) THEN ValueError
         ELSE NormalizeWhitespace(NumericEntities(decoded))

\* The pieces the model's raw texts are made of.
Chunks ==
    { <<"<">>, <<">">>, <<"b">>, <<"&">>, <<" ">>, <<"\n">>,
      <<"a", "m", "p", ";">>, <<"l", "t", ";">>,
      <<"&", "a", "m", "p", ";">>, <<"&", "l", "t", ";">>,
      <<"&", "g", "t", ";">>, <<"&", "n", "b", "s", "p", ";">>,
      <<"&", "#", "6", "0", ";">>, <<"<", "p", ">">>,
      <<"&", "#", "1", "1", "1", "4", "1", "1", "2", ";">> }

RECURSIVE Concat(_)
Concat(parts) == IF parts = <<>> THEN <<>> ELSE parts[1] \o Concat(Tail(parts))

Texts == {Concat(cs) : cs \in UNION {[1..n -> Chunks] : n \in 0..MaxChunks}}

\* A description as Azure DevOps stores it: two HTML paragraphs.
HtmlParagraphs ==
    <<"<", "p", ">", "H", "e", "l", "l", "o", " ", "&", "a", "m", "p", ";",
      " ", "w", "e", "l", "c", "o", "m", "e", "<", "/", "p", ">", "\n", "\n",
      "<", "p", ">", "L", "i", "n", "e", " ", "t", "w", "o", "<", "/", "p", ">">>

InitClean ==
    /\ text \in Texts \cup {HtmlParagraphs}
    /\ outs = <<>>
    /\ IdleH /\ IdleD /\ IdleS /\ IdleR /\ IdleL /\ IdleM

\* The text the next call is given: the raw text, then the last result.
CleanInput == IF outs = <<>> THEN text ELSE outs[Len(outs)]

\* clean_html applied to the raw text, then to its own result.
CleanHtml ==
    /\ Len(outs) < MaxPasses
    /\ CleanInput # ValueError
    /\ outs' = Append(outs, clean_html(CleanInput))
    /\ UNCHANGED <<mvars, text, hvars, dvars, svars, rvars,
                 lvars>>

NextClean == CleanHtml

SpecClean == InitClean /\ [][NextClean]_vars

\* ------------------------------- Heading Normalizer, Section Formatter
\* The largest number of '#' characters r'^#{1,6}\s+' accepts.
MaxHeading == 6

\* Number of leading characters of t that are in the set S.
RECURSIVE RunOf(_, _)
RunOf(t, S) == IF t = <<>> \/ t[1] \notin S THEN 0 ELSE 1 + RunOf(Tail(t), S)

\* HeadingMatch for a heading marker of any length.
HeadingMatch_AnyCount(line) ==
    LET h == RunOf(line, {"#"}) IN
    IF h >= 1 /\ Len(line) > h /\ line[h + 1] \in WhiteSpace
    THEN h + RunOf(Drop(line, h), WhiteSpace)
    ELSE 0

\* Length of the match of r'^#{1,6}\s+' at the start of line, 0 when there
\* is none: all the leading '#', at most six, then all the white space.
HeadingMatch(line) ==
    LET h == RunOf(line, {"#"}) IN
    IF h >= 1 /\ h <= MaxHeading /\ Len(line) > h /\ line[h + 1] \in WhiteSpace
    THEN h + RunOf(Drop(line, h), WhiteSpace)
    ELSE 0

\* Lines 119-131: what is appended for a stripped, non-empty line.
SectionLine(line) ==
    LET m == HeadingMatch(line) IN
    IF m > 0
    THEN <<"*", "*", "S", "e", "c", "t", "i", "o", "n", ":",
           " ">> \o Drop(line, m) \o <<"*", "*">>
    ELSE line

\* clean_markdown_headers keeping the blank lines of the text.
clean_markdown_headers_KeepBlank(t) ==
    IF t = <<>> THEN <<>>
    ELSE LET ls == splitlines(t) IN
         Join([k \in 1..Len(ls) |-> SectionLine(strip(ls[k]))], <<"\n">>)

clean_markdown_headers(t) ==
    IF t = <<>> THEN <<>>
    ELSE LET ls == CleanLines(t) IN
         Join([k \in 1..Len(ls) |-> SectionLine(ls[k])], <<"\n">>)

\* IsBullet knowing the dash marker only.
IsBullet_DashOnly(para) == StartsWith(para, <<"-", " ">>)

\* para.startswith('- ') or para.startswith('* ')
IsBullet(para) ==
    StartsWith(para, <<"-", " ">>) \/ StartsWith(para, <<"*", " ">>)

\* Lines 153-164: the lines emitted for a stripped, non-empty paragraph.
FormatParagraph(para, ind) ==
    IF IsBullet(para)
    THEN LET ls == splitlines(para) IN
         [k \in 1..Len(ls) |-> ind \o ls[k]] \o << <<>> >>
    ELSE LET ls == CleanLines(para) IN
         [k \in 1..Len(ls) |-> ind \o <<">", " ">> \o ls[k]] \o << <<>> >>

\* Lines 146-164: the loop over the paragraphs.
RECURSIVE FormatParagraphs(_, _)
FormatParagraphs(paragraphs, ind) ==
    IF paragraphs = <<>> THEN <<>>
    ELSE LET para == strip(paragraphs[1]) IN
         (IF para = <<>> THEN <<>> ELSE FormatParagraph(para, ind))
             \o FormatParagraphs(Tail(paragraphs), ind)

format_section_content(c, ind) ==
    IF c = <<>> THEN <<>>
    ELSE FormatParagraphs(Split(clean_markdown_headers(c), <<"\n", "\n">>), ind)

\* The pieces the model's contents are made of.
MdChunks ==
    { <<"#">>, <<"#", "#", "#", "#", "#", "#">>, <<" ">>, <<"\n">>, <<"x">>,
      <<"-", " ">>, <<"*", " ">>, <<"-", "-", "-">> }

Contents == {Concat(cs) : cs \in UNION {[1..n -> MdChunks] : n \in 0..MaxParts}}

\* The indents format_work_item passes at levels 0 and 1.
Indents == {<<>>, <<" ", " ">>}

InitSection ==
    /\ content \in Contents
    /\ indent \in Indents
    /\ normalized = <<>>
    /\ section = <<>>
    /\ IdleH /\ IdleD /\ IdleC /\ IdleR /\ IdleL /\ IdleM

\* One call clean_markdown_headers(content).
CleanMarkdownHeaders ==
    /\ normalized = <<>>
    /\ normalized' = <<clean_markdown_headers(content)>>
    /\ UNCHANGED <<mvars, content, indent, section, hvars, dvars, cvars, rvars,
                 lvars>>

\* One call format_section_content(content, indent).
FormatSectionContent ==
    /\ section = <<>>
    /\ section' = <<format_section_content(content, indent)>>
    /\ UNCHANGED <<mvars, content, indent, normalized, hvars, dvars, cvars, rvars,
                 lvars>>

NextSection == CleanMarkdownHeaders \/ FormatSectionContent

SpecSection == InitSection /\ [][NextSection]_vars

\* ------------------------------------------- Recursive Document Renderer
\* A JSON null in a rich-text field, whose other values are texts.
NullText == <<None>>

\* dict.get(key, default)
GetOr(d, key, default) == IF key \in DOMAIN d THEN d[key] ELSE default

\* `value or ''` for a rich-text field: None and '' are falsy.
OrEmpty(v) == IF v = NullText \/ v = <<>> THEN <<>> ELSE v

\* Lines 31-40: the WorkItem built from the record of one file.
WorkItemOf(data) ==
    LET fields == FieldsOf(data) IN
    [id |-> data.id,
     type |-> GetOr(fields, "System.WorkItemType", ""),
     title |-> GetOr(fields, "System.Title", ""),
     description |-> OrEmpty(GetOr(fields, "System.Description", <<>>)),
     acceptance_criteria |->
         OrEmpty(GetOr(fields, "Microsoft.VSTS.Common.AcceptanceCriteria",
                       <<>>)),
     parent_id |-> IF "System.Parent" \in DOMAIN fields
                   THEN <<fields["System.Parent"]>> ELSE NoParent,
     children |-> <<>>]

\* Lines 21-43: the mapping id -> WorkItem of the files of the directory;
\* the file of record i holds id i.
LoadRecords(recs) == [i \in DOMAIN recs |-> WorkItemOf(recs[i])]

\* str(v) as an f-string formats a title or a type: the characters of a
\* string, 'None' for None.
Chars(v) ==
    CASE v = "" -> <<>>
      [] v = "A" -> <<"A">>
      [] v = "B" -> <<"B">>
      [] v = "Feature" -> <<"F", "e", "a", "t", "u", "r", "e">>
      [] v = "User Story" -> <<"U", "s", "e", "r", " ", "S", "t", "o",
                    "r", "y">>
      [] v = "Task" -> <<"T", "a", "s", "k">>
      [] v = "Bug" -> <<"B", "u", "g">>
      [] v = None -> <<"N", "o", "n", "e">>

DigitChar(n) ==
    CASE n = 0 -> "0" [] n = 1 -> "1" [] n = 2 -> "2" [] n = 3 -> "3"
      [] n = 4 -> "4" [] n = 5 -> "5" [] n = 6 -> "6" [] n = 7 -> "7"
      [] n = 8 -> "8" [] n = 9 -> "9"

\* str(n) for a natural number
RECURSIVE IntStr(_)
IntStr(n) ==
    IF n < 10 THEN <<DigitChar(n)>>
    ELSE IntStr(n \div 10) \o <<DigitChar(n % 10)>>

\* "  " * level
Indent(lvl) == [k \in 1..(2 * lvl) |-> " "]

\* '#' * (level + 1)
Hashes(lvl) == [k \in 1..(lvl + 1) |-> "#"]

\* Lines 174-176: the header lines of a block.
Header(item, lvl) ==
    << Indent(lvl) \o Hashes(lvl) \o <<" ">> \o Chars(item.title),
       Indent(lvl) \o <<"*">> \o Chars(item.type) \o <<" ", "#">>
           \o IntStr(item.id) \o <<"*">>,
       <<>> >>

\* Lines 188-193: the lines of one scenario.
ScenarioLines(scenario, ind) ==
    LET lines == CleanLines(scenario) IN
    [k \in 1..Len(lines) |->
        IF k = 1 THEN ind \o <<"-", " ">> \o lines[1]
        ELSE ind \o <<" ", " ">> \o lines[k]]

\* Lines 187-193: the loop over the scenarios.
RECURSIVE FormatCriteria(_, _)
FormatCriteria(scenarios, ind) ==
    IF scenarios = <<>> THEN <<>>
    ELSE ScenarioLines(scenarios[1], ind)
             \o FormatCriteria(Tail(scenarios), ind)

\* Lines 179-180: the description section.
DescriptionLines(item, lvl) ==
    LET desc == clean_html(item.description) IN
    IF desc # <<>> THEN format_section_content(desc, Indent(lvl)) ELSE <<>>

\* Lines 183-195: the acceptance criteria section.
CriteriaLines(item, lvl) ==
    LET ac == clean_html(item.acceptance_criteria) IN
    IF ac # <<>>
    THEN << Indent(lvl) \o 
           <<"*", "*", "A", "c", "c", "e", "p", "t", "a", "n", "c", "e",
             " ", "C", "r", "i", "t", "e", "r", "i", "a", ":", "*", "*">> >>
             \o FormatCriteria(Split(ac, <<"\n", "\n">>), Indent(lvl))
             \o << <<>> >>
    ELSE <<>>

\* Whether clean_html raises for a rich-text field of the item.
CleanRaises(item) ==
    \/ clean_html(item.description) = ValueError
    \/ clean_html(item.acceptance_criteria) = ValueError

\* The level a child is formatted at by a mutant that does not descend.
ChildLevel_Same(lvl) == lvl

\* Line 199: format_work_item(child, level + 1)
ChildLevel(lvl) == lvl + 1

\* format_work_item(item, level) for the item with id i of the mapping: the
\* header, the sections and the blocks of the children joined by newlines;
\* ValueError when a call of clean_html raises it.
RECURSIVE format_work_item(_, _, _)
format_work_item(its, i, lvl) ==
    LET item == its[i]
        blocks == [k \in 1..Len(item.children) |->
                      format_work_item(its, item.children[k], ChildLevel(lvl))]
    IN IF CleanRaises(item) \/ \E k \in 1..Len(blocks) : blocks[k] = ValueError
       THEN ValueError
       ELSE Join(Header(item, lvl) \o DescriptionLines(item, lvl)
                     \o CriteriaLines(item, lvl) \o blocks, <<"\n">>)

\* Lines 214-224: the text written to Requirements.md.
Document(its, rts) ==
    LET blocks == [k \in 1..Len(rts) |-> format_work_item(its, rts[k], 0)] IN
    IF \E k \in 1..Len(blocks) : blocks[k] = ValueError
    THEN ValueError
    ELSE Join(<< <<"#", " ", "P", "r", "o", "j", "e", "c", "t", " ", "R",
                   "e", "q", "u", "i", "r", "e", "m", "e", "n", "t", "s">>,
                 <<"G", "e", "n", "e", "r", "a", "t", "e", "d", " ", "f",
                   "r", "o", "m", " ", "A", "z", "u", "r", "e", " ", "D",
                   "e", "v", "O", "p", "s", " ", "w", "o", "r", "k", " ",
                   "i", "t", "e", "m", "s">>,
                 <<>> >> \o blocks, <<"\n">>)

\* The calls format_work_item(item, level) made for item i and below it.
RECURSIVE CallsBelow(_, _, _)
CallsBelow(its, i, lvl) ==
    {<<i, lvl>>} \cup
    UNION {CallsBelow(its, its[i].children[k], ChildLevel(lvl)) :
               k \in 1..Len(its[i].children)}

\* The calls of format_work_item generate_documentation makes.
Calls(its, rts) == UNION {CallsBelow(its, rts[k], 0) : k \in 1..Len(rts)}

\* Acceptance criteria of two scenarios, the first of two lines.
GivenWhenThen ==
    <<"G", "i", "v", "e", "n", " ", "X", "\n", "W", "h", "e", "n", " ",
      "Y", "\n", "\n", "T", "h", "e", "n", " ", "Z">>

\* The fields of the work item files of the model: a Feature with a
\* description, a Task with acceptance criteria, a record whose title and
\* description are null and that has no type, a record whose type is null
\* and that has no title.
RecordKinds ==
    { [n \in {"System.Title", "System.WorkItemType", "System.Description"} |->
          CASE n = "System.Title" -> "A"
            [] n = "System.WorkItemType" -> "Feature"
            [] n = "System.Description" ->
                   <<"<", "b", ">", "d", "<", "/", "b", ">", "\n", "\n",
                     "-", " ", "e">>],
      [n \in {"System.Title", "System.WorkItemType",
              "Microsoft.VSTS.Common.AcceptanceCriteria"} |->
          CASE n = "System.Title" -> "B"
            [] n = "System.WorkItemType" -> "Task"
            [] n = "Microsoft.VSTS.Common.AcceptanceCriteria" -> GivenWhenThen],
      [n \in {"System.Title", "System.Description"} |->
          CASE n = "System.Title" -> None
            [] n = "System.Description" -> NullText],
      [n \in {"System.WorkItemType"} |-> None] }

\* The record of file i: fields of kind k, System.Parent p unless p is empty.
RecordOf(i, k, p) ==
    [id |-> i,
     fields |-> IF p = NoParent THEN k
                ELSE [n \in DOMAIN k \cup {"System.Parent"} |->
                         IF n = "System.Parent" THEN p[1] ELSE k[n]]]

\* The directories of the model: MaxItems files, the parent of an item an
\* item with a smaller id or none.
Directories ==
    {[i \in 1..MaxItems |-> RecordOf(i, ks[i], ps[i])] :
        ks \in [1..MaxItems -> RecordKinds],
        ps \in {f \in [1..MaxItems -> {NoParent} \cup {<<p>> : p \in 1..MaxItems}] :
                   \A i \in 1..MaxItems : f[i] = NoParent \/ f[i][1] < i}}

InitRender ==
    /\ records \in Directories
    /\ order \in ListingOrders(DOMAIN records)
    /\ items = <<>>
    /\ roots = <<>>
    /\ runs = 0
    /\ prev = NoResult
    /\ node = 0
    /\ level = 0
    /\ block = <<>>
    /\ doc = <<>>
    /\ IdleD /\ IdleC /\ IdleS /\ IdleL /\ IdleM

\* generate_documentation: the work items are loaded, the hierarchy is
\* built and the document is written, unless clean_html raises.
GenerateDocumentation ==
    /\ doc = <<>>
    /\ \E r \in {build_hierarchy(LoadRecords(records), order)} :
          /\ items' = r.items
          /\ roots' = r.roots
          /\ doc' = Document(r.items, r.roots)
    /\ runs' = 1
    /\ UNCHANGED <<mvars, order, prev, records, node, level, block, dvars, cvars,
                   svars, lvars>>

\* One of the calls format_work_item(item, level) of that run.
FormatWorkItem ==
    /\ doc # <<>>
    /\ block = <<>>
    /\ \E c \in Calls(items, roots) :
          /\ node' = c[1]
          /\ level' = c[2]
          /\ block' = format_work_item(items, c[1], c[2])
    /\ UNCHANGED <<mvars, hvars, records, doc, dvars, cvars, svars, lvars>>

NextRender == GenerateDocumentation \/ FormatWorkItem

SpecRender == InitRender /\ [][NextRender]_vars

\* ------------------------------------------------ Movie Lambda Handler
\* An event is a function whose keys are among rawPath, method (the value at
\* requestContext.http.method) and body. A body is what json.loads makes of
\* the string: an object, another JSON value, or a failure; or it is None.
KnownActions ==
    {"get_movie_info", "search_movies", "update_user_settings",
     "get_homepage_data"}

Actions == KnownActions \cup {"invalid_action"}

MovieIds == {"", "tt1"}

\* The JSON objects a body may hold: an action or none, a movie_id or none.
BodyObjects ==
    UNION {[D -> Actions \cup MovieIds] : D \in SUBSET {"action", "movie_id"}}

JsonObjects ==
    {o \in BodyObjects :
        /\ "action" \in DOMAIN o => o["action"] \in Actions
        /\ "movie_id" \in DOMAIN o => o["movie_id"] \in MovieIds}

Bodies ==
    {[kind |-> "object", value |-> o] : o \in JsonObjects}
    \cup {[kind |-> k, value |-> <<>>] : k \in {"array", "invalid", "none"}}

Paths == {"/api", "/invalid_path"}

Methods == {"POST", "GET"}

\* A key the event does not have.
Absent == "absent"

AbsentBody == [kind |-> Absent, value |-> <<>>]

\* The event with path p, method m and body b, each of which may be absent.
EventOf(p, m, b) ==
    [k \in {x \in {"rawPath"} : p # Absent} \cup {x \in {"method"} : m # Absent}
            \cup {x \in {"body"} : b # AbsentBody} |->
        CASE k = "rawPath" -> p
          [] k = "method" -> m
          [] k = "body" -> b]

Events ==
    {EventOf(p, m, b) : p \in Paths \cup {Absent}, m \in Methods \cup {Absent},
                        b \in Bodies \cup {AbsentBody}}

\* How the movie API answers requests.get: with the movie's data, with an
\* HTTP error status, or not at all.
ApiAnswers ==
    {[kind |-> "ok", status |-> 200], [kind |-> "http_error", status |-> 404],
     [kind |-> "http_error", status |-> 503],
     [kind |-> "connection_error", status |-> 0]}

\* A response: the status code and the dict given to json.dumps.
Response(code, key, value) ==
    [statusCode |-> code, body |-> [k \in {key} |-> value]]

\* An exception raised and not yet caught.
Raised(name) == [exception |-> name]

IsRaised(r) == "exception" \in DOMAIN r

\* Lines 42-80: get_movie_info(body) when the movie API answers with a.
get_movie_info(body, a) ==
    LET movie_id == Get(body, "movie_id") IN
    IF movie_id = None \/ movie_id = ""
    THEN Response(400, "error", "movie_id is required")
    ELSE IF a.kind = "connection_error" THEN Raised("ConnectionError")
    ELSE IF a.kind = "http_error"
         THEN Response(a.status, "error", "HTTP error occurred")
    ELSE Response(200, "message", "Movie info retrieved successfully")

\* Lines 82-87
search_movies(body) ==
    Response(200, "message", "Movies searched successfully")

\* Lines 89-94
update_user_settings(body) ==
    Response(200, "message", "User settings updated successfully")

\* Lines 96-101
get_homepage_data(body) ==
    Response(200, "message", "Homepage data fetched successfully")

\* Lines 16-29: the action routed to its function.
Dispatch(body, a) ==
    LET action == Get(body, "action") IN
    CASE action = "get_movie_info" -> get_movie_info(body, a)
      [] action = "search_movies" -> search_movies(body)
      [] action = "update_user_settings" -> update_user_settings(body)
      [] action = "get_homepage_data" -> get_homepage_data(body)
      [] OTHER -> Response(400, "error", "Invalid action")

\* Lines 14-15: json.loads(event.get('body', '{}')) and body.get('action').
\* json.loads raises for None and for a string that is not JSON; a JSON
\* value that is not an object has no get.
ParseAndDispatch(ev, a) ==
    LET raw == IF "body" \in DOMAIN ev THEN ev["body"]
               ELSE [kind |-> "object", value |-> <<>>]
    IN CASE raw.kind = "none" -> Raised("TypeError")
         [] raw.kind = "invalid" -> Raised("JSONDecodeError")
         [] raw.kind = "array" -> Raised("AttributeError")
         [] OTHER -> Dispatch(raw.value, a)

\* Dispatch of any POST, whatever its path.
Route_AnyPath(ev, a) ==
    IF "rawPath" \notin DOMAIN ev \/ "method" \notin DOMAIN ev
    THEN Raised("KeyError")
    ELSE IF ev["method"] = "POST"
         THEN ParseAndDispatch(ev, a)
         ELSE Response(404, "error", "Not Found")

\* Lines 10-35: the body of the try statement.
Route(ev, a) ==
    IF "rawPath" \notin DOMAIN ev \/ "method" \notin DOMAIN ev
    THEN Raised("KeyError")
    ELSE IF ev["rawPath"] = "/api" /\ ev["method"] = "POST"
         THEN ParseAndDispatch(ev, a)
         ELSE Response(404, "error", "Not Found")

\* lambda_handler without its except clause.
lambda_handler_NoExcept(ev, a) == Route(ev, a)

\* Lines 8-40: an exception raised in the try statement becomes a 500.
lambda_handler(ev, a) ==
    LET r == Route(ev, a) IN
    IF IsRaised(r) THEN Response(500, "error", r.exception) ELSE r

InitHandler ==
    /\ event \in Events
    /\ api \in ApiAnswers
    /\ response = <<>>
    /\ IdleH /\ IdleD /\ IdleC /\ IdleS /\ IdleR /\ IdleM

\* One invocation lambda_handler(event, context).
LambdaHandler ==
    /\ response = <<>>
    /\ response' = lambda_handler(event, api)
    /\ UNCHANGED <<mvars, event, api, hvars, dvars, cvars, svars, rvars>>

NextHandler == LambdaHandler

SpecHandler == InitHandler /\ [][NextHandler]_vars

\* ------------------------------------------- Fetch and Update programs
\* The largest number of ADO_Fetch.main and ADO_Update.main runs.
MaxMains == 2

\* get_all_work_items: ORDER BY [System.Id].
ListedFiles(rem) == Ascending(DOMAIN rem)

\* Lines 137-141: the files saved for the first n listed work items.
Saved(rem, n) ==
    LET ids == ListedFiles(rem) IN
    [f \in {ids[k] : k \in 1..n} |-> rem[f]]

\* copy_snapshot leaving a snapshot directory that exists as it is.
copy_snapshot_KeepExisting(dl, sn) == IF sn # <<>> THEN sn ELSE dl

\* Lines 144-146: the snapshot directory is removed and the download
\* directory copied in its place.
copy_snapshot(dl, sn) == dl

\* Where a run of ADO_Fetch.main fails: nowhere, in get_all_work_items, in
\* fetch_work_item for the k-th listed item, or in generate_documentation.
FailPoint(at, k) == [at |-> at, k |-> k]

FailPoints(rem) ==
    {FailPoint("none", 0), FailPoint("listing", 0),
     FailPoint("documentation", 0)}
        \cup {FailPoint("fetch", k) : k \in 1..Cardinality(DOMAIN rem)}

\* SnapshotAfter replacing the snapshot wherever the run failed.
SnapshotAfter_Always(fail, dl, sn) == copy_snapshot(dl, sn)

\* The snapshot directory after a run: lines 144-146 are reached only when
\* nothing above them raised.
SnapshotAfter(fail, dl, sn) ==
    IF fail.at \in {"listing", "fetch"} THEN sn ELSE copy_snapshot(dl, sn)

\* ADO_Fetch.main on server state rem and snapshot directory sn.
fetch_main(rem, sn, fail) ==
    LET n == CASE fail.at = "listing" -> 0
               [] fail.at = "fetch" -> fail.k - 1
               [] OTHER -> Cardinality(DOMAIN rem)
    IN [download |-> Saved(rem, n),
        snapshot |-> SnapshotAfter(fail, Saved(rem, n), sn),
        outcome |-> IF fail.at = "none" THEN "completed" ELSE fail.at,
        calls |-> <<>>, remote |-> rem, refreshed |-> FALSE]

\* The answers the operator may type.
Answers == {"y", "Y", "n", "yes"}

\* str.lower
Lower(a) == IF a = "Y" THEN "y" ELSE a

\* The file of the server's work item with this id.
FileOf(id) == id - 9

\* The server applies a patch document: every field of the change gets its
\* value.
Patched(rec, chg) ==
    [rec EXCEPT !.fields =
        [n \in DOMAIN @ \cup DOMAIN chg |->
            IF n \in DOMAIN chg THEN chg[n] ELSE @[n]]]

\* Whether the server can accept an update of this work item.
Updatable(rem, change) == FileOf(change.id) \in DOMAIN rem

\* update_work_item: True when the request got through and the server
\* accepted it, False when anything raised.
update_work_item(rem, change, through) == through /\ Updatable(rem, change)

\* The update loop giving up at the first failed update.
UpdateLoop_StopAtFailure(chs, ok, rem) ==
    LET failed == {k \in 1..Len(chs) : ~update_work_item(rem, chs[k], ok[k])}
        n == IF failed = {} THEN Len(chs)
             ELSE CHOOSE k \in failed : \A j \in failed : k <= j
    IN [k \in 1..n |->
           [id |-> chs[k].id, changes |-> chs[k].changes,
            ok |-> update_work_item(rem, chs[k], ok[k])]]

\* ADO_Update.main, lines 122-126: update_work_item is called for each
\* change in turn; ok[k] says whether the k-th request gets through.
UpdateLoop(chs, ok, rem) ==
    [k \in 1..Len(chs) |->
        [id |-> chs[k].id, changes |-> chs[k].changes,
         ok |-> update_work_item(rem, chs[k], ok[k])]]

\* The server after the successful ones of the calls cs.
RECURSIVE ServerAfter(_, _)
ServerAfter(rem, cs) ==
    IF cs = <<>> THEN rem
    ELSE IF cs[1].ok
    THEN ServerAfter([rem EXCEPT ![FileOf(cs[1].id)] =
                         Patched(@, cs[1].changes)], Tail(cs))
    ELSE ServerAfter(rem, Tail(cs))

NoChanges == "No changes detected."
Cancelled == "Update cancelled."
AllCompleted == "All updates completed successfully!"

\* ADO_Update.main, lines 100-133, on the directories dl and sn with
\* detected changes chs, the operator typing ans, the requests getting through as ok says and the
\* refresh run of ADO_Fetch.py failing at fail.
update_main(dl, sn, rem, chs, ans, ok, fail) ==
    LET quiet == [calls |-> <<>>, remote |-> rem, download |-> dl,
                  snapshot |-> sn, refreshed |-> FALSE, outcome |-> "idle"]
    IN IF chs = <<>> THEN [quiet EXCEPT !.outcome = NoChanges]
       ELSE IF Lower(ans) # "y" THEN [quiet EXCEPT !.outcome = Cancelled]
       ELSE LET cs == UpdateLoop(chs, ok, rem) IN
            [fetch_main(ServerAfter(rem, cs), sn, fail) EXCEPT
                !.calls = cs,
                !.remote = ServerAfter(rem, cs),
                !.refreshed = TRUE]

\* Before the first fetch: the server holds the work items, the directories
\* do not exist.
InitSync ==
    /\ remote = [f \in FetchedFiles |-> FetchedRecord(f)]
    /\ download = <<>>
    /\ snapshot = <<>>
    /\ listing = <<>>
    /\ changes = <<>>
    /\ edits = 0
    /\ detected = FALSE
    /\ mains = 0
    /\ fetches = 0
    /\ fetched = "idle"
    /\ answer = ""
    /\ calls = <<>>
    /\ printed = <<>>
    /\ refreshed = FALSE
    /\ IdleH /\ IdleC /\ IdleS /\ IdleR /\ IdleL /\ IdleP
    /\ IdleA /\ IdleF

\* What the last run of ADO_Update.main did is forgotten once the
\* directories change again.
Forgotten ==
    answer' = "" /\ calls' = <<>> /\ printed' = <<>> /\ refreshed' = FALSE

\* One run of ADO_Fetch.main.
FetchMain ==
    /\ mains < MaxMains
    /\ \E fail \in FailPoints(remote) :
       \E fm \in {fetch_main(remote, snapshot, fail)} :
          /\ download' = fm.download
          /\ snapshot' = fm.snapshot
          /\ fetched' = fm.outcome
    /\ mains' = mains + 1
    /\ fetches' = fetches + 1
    /\ Stale
    /\ Forgotten
    /\ UNCHANGED <<pvars, avars, fvars, edits, remote, hvars, cvars, svars, rvars, lvars>>

\* One run of ADO_Update.main. The prompt is reached only with changes to
\* show, the requests and the refresh run only after a 'y'.
UpdateMain ==
    /\ mains < MaxMains
    /\ \E ls \in ListingOrders(DOMAIN download) :
       \E chs \in {detect_changes(download, snapshot, ls)} :
       \E ans \in IF chs = <<>> THEN {""} ELSE Answers :
       \E ok \in IF chs # <<>> /\ Lower(ans) = "y"
                  THEN [1..Len(chs) -> BOOLEAN] ELSE {<<>>} :
       \E fail \in IF chs # <<>> /\ Lower(ans) = "y"
                    THEN FailPoints(remote) ELSE {FailPoint("none", 0)} :
       \E um \in {update_main(download, snapshot, remote, chs, ans, ok,
                               fail)} :
          /\ listing' = ls
          /\ changes' = chs
          /\ answer' = ans
          /\ calls' = um.calls
          /\ printed' = IF um.refreshed THEN <<AllCompleted>>
                        ELSE <<um.outcome>>
          /\ refreshed' = um.refreshed
          /\ remote' = um.remote
          /\ download' = um.download
          /\ snapshot' = um.snapshot
          /\ fetched' = IF um.refreshed THEN um.outcome ELSE fetched
          /\ fetches' = IF um.refreshed THEN fetches + 1 ELSE fetches
          /\ detected' = ~um.refreshed
    /\ mains' = mains + 1
    /\ UNCHANGED <<pvars, avars, fvars, edits, hvars, cvars, svars, rvars, lvars>>

\* The largest number of local edits.
MaxLocal == 2

\* Between two runs of the programs the operator changes the title or the
\* state in a downloaded file.
EditLocal ==
    /\ mains < MaxMains
    /\ edits < MaxLocal
    /\ \E f \in DOMAIN download \cap FetchedFiles :
         \E n \in {"System.Title", "System.State"} :
            \E v \in FieldValues(n) \ {download[f].fields[n]} :
               download' = [download EXCEPT ![f].fields[n] = v]
    /\ edits' = edits + 1
    /\ Stale
    /\ Forgotten
    /\ UNCHANGED <<pvars, avars, fvars, snapshot, remote, mains, fetches, fetched, hvars, cvars,
                   svars, rvars, lvars>>

\* The operator creates a work item file the server knows nothing of.
CreateLocal ==
    /\ mains < MaxMains
    /\ edits < MaxLocal
    /\ download # <<>>
    /\ NewFile \notin DOMAIN download
    /\ download' = [g \in DOMAIN download \cup {NewFile} |->
                       IF g = NewFile THEN FetchedRecord(g) ELSE download[g]]
    /\ edits' = edits + 1
    /\ Stale
    /\ Forgotten
    /\ UNCHANGED <<pvars, avars, fvars, snapshot, remote, mains, fetches, fetched, hvars, cvars,
                   svars, rvars, lvars>>

NextSync == FetchMain \/ UpdateMain \/ EditLocal \/ CreateLocal

SpecSync == InitSync /\ [][NextSync]_vars

\* ---------------------------------------------- Profile Settings Lambda
\* The largest number of operations handled.
MaxRequests == 3

AccountId == "a1"
\* Profile p1 is in the profile table, profile p2 is not.
ProfileIds == {"p1", "p2"}
profile_table == {"p1"}

\* A request parameter that is absent (or empty): data.get(...) is falsy.
Missing == ""

Pins == {"1234", "0000"}

\* f"hashed_{pin}_value"
PinHash(pin) == <<"hashed_", pin, "_value">>

\* 'Item' not in response
NoItem == <<>>

\* datetime.utcnow().isoformat()
UtcNow == "utcnow"

DefaultRestrictions ==
    [maxRating |-> "PG-13", blockedGenres |-> <<>>, blockedTitles |-> <<>>,
     blockedActors |-> <<>>, blockedDirectors |-> <<>>]

\* The settings objects a client sends: a plain one, one as
\* getProfileSettings returns it for a protected profile, one naming a
\* pinHash, and an empty one.
SettingsObjects ==
    { [theme |-> "dark"],
      [theme |-> "dark", pinProtected |-> TRUE],
      [theme |-> "dark", pinHash |-> PinHash("0000")],
      <<>> }

RestrictionObjects == {[maxRating |-> "R"], [maxRating |-> "G"], <<>>}

\* d with key k set to v.
With(d, k, v) == [n \in DOMAIN d \cup {k} |-> IF n = k THEN v ELSE d[n]]

\* d without key k.
Without(d, k) == [n \in DOMAIN d \ {k} |-> d[n]]

Error(reason, code) == [error |-> reason, statusCode |-> code]

\* The except clauses: the store raised.
DatabaseError == [error |-> "Database error", statusCode |-> 500]

\* What a handler hands back: its result and the table it leaves.
Handled(result, table) == [result |-> result, table |-> table]

\* The checks every handler starts with.
MissingKey(data) ==
    IF data.accountId = Missing
    THEN Error("Missing required parameter: accountId", 400)
    ELSE IF data.profileId = Missing
    THEN Error("Missing required parameter: profileId", 400)
    ELSE <<>>

\* handle_get_profile_settings; fault says that the store raises.
handle_get_profile_settings(table, data, fault) ==
    IF MissingKey(data) # <<>> THEN Handled(MissingKey(data), table)
    ELSE IF fault THEN Handled(DatabaseError, table)
    ELSE IF data.profileId \notin profile_table
    THEN Handled(Error("Profile not found", 404), table)
    ELSE LET item == table[data.profileId] IN
         IF item # NoItem
         THEN Handled(
                [settings |->
                    IF "pinHash" \in DOMAIN item
                    THEN Without(With(item, "pinProtected", TRUE), "pinHash")
                    ELSE item,
                 message |-> "Profile settings retrieved successfully"],
                table)
         ELSE Handled(
                [settings |->
                    [accountId |-> data.accountId,
                     profileId |-> data.profileId,
                     pinProtected |-> FALSE,
                     contentRestrictions |-> DefaultRestrictions,
                     createdAt |-> UtcNow],
                 message |->
                    "Default profile settings retrieved (no custom settings found)"],
                table)

\* Lines 360-370: the item updateProfileSettings stores is the request's
\* settings object without pinHash, with the timestamp and the key.
UpdatedItem(old, data) ==
    With(With(With(Without(data.settings, "pinHash"), "updatedAt", UtcNow),
              "accountId", data.accountId),
         "profileId", data.profileId)

handle_update_profile_settings(table, data, fault) ==
    IF MissingKey(data) # <<>> THEN Handled(MissingKey(data), table)
    ELSE IF data.settings = <<>>
    THEN Handled(Error("Missing required parameter: settings", 400), table)
    ELSE IF fault THEN Handled(DatabaseError, table)
    ELSE IF data.profileId \notin profile_table
    THEN Handled(Error("Profile not found", 404), table)
    ELSE Handled(
           [message |-> "Profile settings updated successfully",
            settings |-> [accountId |-> data.accountId,
                          profileId |-> data.profileId,
                          updatedAt |-> UtcNow]],
           [table EXCEPT ![data.profileId] = UpdatedItem(@, data)])

handle_set_profile_pin(table, data, fault) ==
    IF MissingKey(data) # <<>> THEN Handled(MissingKey(data), table)
    ELSE IF data.pin = Missing
    THEN Handled(Error("Missing required parameter: pin", 400), table)
    ELSE IF fault THEN Handled(DatabaseError, table)
    ELSE LET item == table[data.profileId]
             settings == IF item # NoItem THEN item
                         ELSE [accountId |-> data.accountId,
                               profileId |-> data.profileId,
                               contentRestrictions |-> DefaultRestrictions,
                               createdAt |-> UtcNow]
         IN Handled(
              [message |-> "Profile PIN set successfully",
               profileId |-> data.profileId, pinProtected |-> TRUE],
              [table EXCEPT ![data.profileId] =
                  With(With(With(settings, "pinHash", PinHash(data.pin)),
                            "pinProtected", TRUE),
                       "updatedAt", UtcNow)])

handle_verify_profile_pin(table, data, fault) ==
    IF MissingKey(data) # <<>> THEN Handled(MissingKey(data), table)
    ELSE IF data.pin = Missing
    THEN Handled(Error("Missing required parameter: pin", 400), table)
    ELSE IF fault THEN Handled(DatabaseError, table)
    ELSE LET item == table[data.profileId] IN
         IF item = NoItem \/ "pinHash" \notin DOMAIN item
         THEN Handled([error |-> "Profile is not PIN protected",
                       verified |-> FALSE, statusCode |-> 400], table)
         ELSE IF PinHash(data.pin) = item["pinHash"]
         THEN Handled([message |-> "PIN verified successfully",
                       verified |-> TRUE], table)
         ELSE Handled([message |-> "Invalid PIN", verified |-> FALSE], table)

handle_update_content_restrictions(table, data, fault) ==
    IF MissingKey(data) # <<>> THEN Handled(MissingKey(data), table)
    ELSE IF data.contentRestrictions = <<>>
    THEN Handled(
           Error("Missing required parameter: contentRestrictions", 400),
           table)
    ELSE IF fault THEN Handled(DatabaseError, table)
    ELSE LET item == table[data.profileId]
             settings == IF item # NoItem THEN item
                         ELSE [accountId |-> data.accountId,
                               profileId |-> data.profileId,
                               createdAt |-> UtcNow]
         IN Handled(
              [message |-> "Content restrictions updated successfully",
               contentRestrictions |-> data.contentRestrictions],
              [table EXCEPT ![data.profileId] =
                  With(With(settings, "contentRestrictions",
                            data.contentRestrictions),
                       "updatedAt", UtcNow)])

\* The request parameters of one operation.
DataOf(a, p, pin, settings, restrictions) ==
    [accountId |-> a, profileId |-> p, pin |-> pin, settings |-> settings,
     contentRestrictions |-> restrictions]

Keys == {DataOf(a, p, Missing, <<>>, <<>>) :
            a \in {AccountId, Missing}, p \in ProfileIds \cup {Missing}}

Succeeded(result) == "statusCode" \notin DOMAIN result

\* No settings are stored and no pin was set.
InitSettings ==
    /\ settings_table = [p \in ProfileIds |-> NoItem]
    /\ pins = [p \in ProfileIds |-> Missing]
    /\ reply = <<>>
    /\ requests = 0
    /\ IdleH /\ IdleD /\ IdleC /\ IdleS /\ IdleR /\ IdleL /\ IdleU
    /\ IdleA /\ IdleF

Answered(h) ==
    /\ settings_table' = h.table
    /\ reply' = h.result
    /\ requests' = requests + 1

OtherLambdas ==
    <<hvars, dvars, cvars, svars, rvars, lvars, uvars, avars, fvars>>

GetProfileSettings ==
    /\ requests < MaxRequests
    /\ \E data \in Keys, fault \in BOOLEAN :
          Answered(handle_get_profile_settings(settings_table, data, fault))
    /\ UNCHANGED <<pins, OtherLambdas>>

UpdateProfileSettings ==
    /\ requests < MaxRequests
    /\ \E key \in Keys, settings \in SettingsObjects, fault \in BOOLEAN :
          Answered(handle_update_profile_settings(
                       settings_table, [key EXCEPT !.settings = settings],
                       fault))
    /\ UNCHANGED <<pins, OtherLambdas>>

SetProfilePin ==
    /\ requests < MaxRequests
    /\ \E key \in Keys, pin \in Pins \cup {Missing}, fault \in BOOLEAN :
       \E h \in {handle_set_profile_pin(
                     settings_table, [key EXCEPT !.pin = pin], fault)} :
          /\ Answered(h)
          /\ pins' = IF Succeeded(h.result)
                     THEN [pins EXCEPT ![key.profileId] = pin]
                     ELSE pins
    /\ UNCHANGED OtherLambdas

VerifyProfilePin ==
    /\ requests < MaxRequests
    /\ \E key \in Keys, pin \in Pins \cup {Missing}, fault \in BOOLEAN :
          Answered(handle_verify_profile_pin(
                       settings_table, [key EXCEPT !.pin = pin], fault))
    /\ UNCHANGED <<pins, OtherLambdas>>

UpdateContentRestrictions ==
    /\ requests < MaxRequests
    /\ \E key \in Keys, restrictions \in RestrictionObjects,
          fault \in BOOLEAN :
          Answered(handle_update_content_restrictions(
                       settings_table,
                       [key EXCEPT !.contentRestrictions = restrictions],
                       fault))
    /\ UNCHANGED <<pins, OtherLambdas>>

NextSettings ==
    GetProfileSettings \/ UpdateProfileSettings \/ SetProfilePin
        \/ VerifyProfilePin \/ UpdateContentRestrictions

SpecSettings == InitSettings /\ [][NextSettings]_vars

\* ------------------------------------- Subscription Lambda and routers
\* lambda_handler_subscription.py, lambda_handler_watchlist.py and the
\* central router lambda_handler.py of src/src.
\* The largest number of invocations.
MaxInvocations == 3

SubscriptionIds == {"s1", "s2"}

\* The accounts a request names: a1 owns the stored subscriptions and a
\* watchlist, a2 owns nothing.
Accounts == {"a1", "a2"}

\* Python truth of data.get('immediateEffect', False). The values a client
\* sends are tokens: absent (no key), False, True, the string 'false' and
\* the empty string ''.
Truthy(v) == v \in {"True", "'false'"}

\* The item createSubscription writes, reduced to its key, its status and
\* its updatedAt.
ActiveSubscription(s) ==
    [accountId |-> "a1", subscriptionId |-> s, status |-> "active",
     updatedAt |-> "created"]

\* get_item(Key={'accountId': ..., 'subscriptionId': ...})
GetItem(table, a, s) ==
    IF s \in DOMAIN table /\ table[s] # NoItem /\ table[s].accountId = a
    THEN table[s]
    ELSE NoItem

\* The request data of the subscription operations.
SubscriptionData(a, s, i, plan) ==
    [accountId |-> a, subscriptionId |-> s, immediateEffect |-> i,
     serviceType |-> "streaming", planId |-> plan,
     paymentMethod |-> "card"]

handle_get_subscription(table, data, fault) ==
    IF data.accountId = Missing
    THEN [table |-> table,
          result |-> Error("Missing required parameter: accountId", 400)]
    ELSE IF data.subscriptionId = Missing
    THEN [table |-> table,
          result |-> Error("Missing required parameter: subscriptionId",
                           400)]
    ELSE IF fault
    THEN [table |-> table, result |-> DatabaseError]
    ELSE IF GetItem(table, data.accountId, data.subscriptionId) = NoItem
    THEN [table |-> table, result |-> Error("Subscription not found", 404)]
    ELSE [table |-> table,
          result |->
            [subscription |->
                 GetItem(table, data.accountId, data.subscriptionId),
             message |-> "Subscription retrieved successfully"]]

\* Lines 391-392 read ACCOUNTS_TABLE, a name the module never binds (it
\* binds ACCOUNT_TABLE): the NameError is caught by the last except clause
\* before anything is written.
handle_create_subscription(table, data, fault) ==
    IF data.accountId = Missing
    THEN [table |-> table,
          result |-> Error("Missing required parameter: accountId", 400)]
    ELSE IF data.serviceType = Missing
    THEN [table |-> table,
          result |-> Error("Missing required parameter: serviceType", 400)]
    ELSE IF data.planId = Missing
    THEN [table |-> table,
          result |-> Error("Missing required parameter: planId", 400)]
    ELSE IF data.paymentMethod = Missing
    THEN [table |-> table,
          result |-> Error("Missing required parameter: paymentMethod",
                           400)]
    ELSE [table |-> table,
          result |-> Error("An unexpected error occurred", 500)]

\* The update_item of handle_cancel_subscription.
CancelledItem(item, new_status) ==
    With(With(With(With(item, "status", new_status),
                   "cancellationReason", "User requested cancellation"),
              "cancellationDate", UtcNow),
         "updatedAt", UtcNow)

\* handle_cancel_subscription without its 'already cancelled' test.
handle_cancel_subscription_Again(table, data, fault) ==
    IF data.accountId = Missing
    THEN [table |-> table,
          result |-> Error("Missing required parameter: accountId", 400)]
    ELSE IF data.subscriptionId = Missing
    THEN [table |-> table,
          result |-> Error("Missing required parameter: subscriptionId",
                           400)]
    ELSE IF fault
    THEN [table |-> table, result |-> DatabaseError]
    ELSE
      LET existing == GetItem(table, data.accountId, data.subscriptionId)
          new_status == IF Truthy(data.immediateEffect)
                        THEN "cancelled"
                        ELSE "pending_cancellation"
      IN  IF existing = NoItem
          THEN [table |-> table,
                result |-> Error("Subscription not found", 404)]
          ELSE [table |->
                  [table EXCEPT ![data.subscriptionId] =
                                    CancelledItem(existing, new_status)],
                result |->
                  [message |-> <<"Subscription ", new_status>>,
                   subscription |-> CancelledItem(existing, new_status),
                   immediateEffect |->
                       IF data.immediateEffect = "absent"
                       THEN "False"
                       ELSE data.immediateEffect]]

handle_cancel_subscription(table, data, fault) ==
    IF data.accountId = Missing
    THEN [table |-> table,
          result |-> Error("Missing required parameter: accountId", 400)]
    ELSE IF data.subscriptionId = Missing
    THEN [table |-> table,
          result |-> Error("Missing required parameter: subscriptionId",
                           400)]
    ELSE IF fault
    THEN [table |-> table, result |-> DatabaseError]
    ELSE
      LET existing == GetItem(table, data.accountId, data.subscriptionId)
          new_status == IF Truthy(data.immediateEffect)
                        THEN "cancelled"
                        ELSE "pending_cancellation"
      IN  IF existing = NoItem
          THEN [table |-> table,
                result |-> Error("Subscription not found", 404)]
          ELSE IF existing.status = "cancelled"
          THEN [table |-> table,
                result |-> Error("Subscription is already cancelled", 400)]
          ELSE [table |->
                  [table EXCEPT ![data.subscriptionId] =
                                    CancelledItem(existing, new_status)],
                result |->
                  [message |-> <<"Subscription ", new_status>>,
                   subscription |-> CancelledItem(existing, new_status),
                   immediateEffect |->
                       IF data.immediateEffect = "absent"
                       THEN "False"
                       ELSE data.immediateEffect]]

\* The watchlist items stored for an account.
watchlist_items(a) == IF a = "a1" THEN <<"tt1">> ELSE <<>>

handle_get_watchlist(data, fault) ==
    IF data.accountId = Missing
    THEN Error("accountId is required", 400)
    ELSE IF fault
    THEN Error("Failed to retrieve watchlist", 500)
    ELSE [statusCode |-> 200, watchlist |-> watchlist_items(data.accountId),
          count |-> Len(watchlist_items(data.accountId)),
          timestamp |-> UtcNow]

\* create_response without its constant headers; body is the object that
\* json.dumps serialises.
create_response(status_code, body) ==
    [statusCode |-> status_code, body |-> body]

\* No operation handler was called.
NoHandlerResult == <<>>

SubscriptionOperations ==
    {"getSubscription", "createSubscription", "cancelSubscription"}

\* An event: parses says whether json.loads accepts the body (or the data
\* query parameter); data is the data dictionary the router extracts.
ApiEvent(method, parses, operation, data) ==
    [httpMethod |-> method, parses |-> parses, operation |-> operation,
     data |-> data]

Refused(table, status_code, reason) ==
    [table |-> table, result |-> NoHandlerResult,
     http |-> create_response(status_code, [error |-> reason])]

\* What a handler returned for the operation of the event.
SubscriptionHandler(table, ev, fault) ==
    IF ev.operation = "getSubscription"
    THEN handle_get_subscription(table, ev.data, fault)
    ELSE IF ev.operation = "createSubscription"
    THEN handle_create_subscription(table, ev.data, fault)
    ELSE handle_cancel_subscription(table, ev.data, fault)

\* lambda_handler of lambda_handler_subscription.py: a GET request reads
\* the query parameters and parses nothing.
subscription_lambda_handler(table, ev, fault) ==
    IF ev.httpMethod = "OPTIONS"
    THEN [table |-> table, result |-> NoHandlerResult,
          http |-> create_response(
                       200, [message |-> "CORS preflight successful"])]
    ELSE IF ev.httpMethod # "GET" /\ ~ev.parses
    THEN Refused(table, 500, "Internal server error")
    ELSE IF ev.operation = Missing
    THEN Refused(table, 400, "Missing operation parameter")
    ELSE IF ev.operation \notin SubscriptionOperations
    THEN Refused(table, 400, "Unknown operation")
    ELSE LET h == SubscriptionHandler(table, ev, fault)
         IN  [table |-> h.table, result |-> h.result,
              http |-> IF "statusCode" \in DOMAIN h.result
                       THEN create_response(
                                h.result.statusCode,
                                Without(h.result, "statusCode"))
                       ELSE create_response(200, h.result)]

\* lambda_handler of lambda_handler_watchlist.py.
watchlist_lambda_handler(table, ev, fault) ==
    IF ev.httpMethod = "OPTIONS"
    THEN [table |-> table, result |-> NoHandlerResult,
          http |-> create_response(
                       200, [message |-> "CORS preflight successful"])]
    ELSE IF ~ev.parses
    THEN Refused(table, 500, "Internal server error")
    ELSE IF ev.operation = Missing
    THEN Refused(table, 400, "Operation parameter is required")
    ELSE IF ev.operation # "getWatchlist"
    THEN Refused(table, 400, "Unknown operation")
    ELSE [table |-> table, result |-> handle_get_watchlist(ev.data, fault),
          http |-> create_response(
                       200, handle_get_watchlist(ev.data, fault))]

\* lambda_handler of lambda_handler.py: the handlers dictionary names
\* handle_get_profile, handle_delete_profile and
\* handle_update_profile_preferences, which the module never defines, so
\* building it raises NameError for every operation.
central_lambda_handler(table, ev, fault) ==
    IF ev.httpMethod = "OPTIONS"
    THEN [table |-> table, result |-> NoHandlerResult,
          http |-> create_response(
                       200, [message |-> "CORS preflight successful"])]
    ELSE IF ~ev.parses
    THEN Refused(table, 500, "Internal server error")
    ELSE IF ev.operation = Missing
    THEN Refused(table, 400, "Operation parameter is required")
    ELSE Refused(table, 500, "Internal server error")

\* Each subscription is absent or as createSubscription's item describes
\* an active one.
InitRouters ==
    /\ subscription_table \in
           {[s \in SubscriptionIds |->
                 IF s \in present THEN ActiveSubscription(s) ELSE NoItem] :
                present \in SUBSET SubscriptionIds}
    /\ lambda_name = ""
    /\ api_event = <<>>
    /\ store_raised = FALSE
    /\ handler_result = NoHandlerResult
    /\ http_response = <<>>
    /\ invocations = 0
    /\ IdleH /\ IdleD /\ IdleC /\ IdleS /\ IdleR /\ IdleL /\ IdleU
    /\ IdleP /\ IdleF

Invoked(name, ev, fault, h) ==
    /\ subscription_table' = h.table
    /\ lambda_name' = name
    /\ api_event' = ev
    /\ store_raised' = fault
    /\ handler_result' = h.result
    /\ http_response' = h.http
    /\ invocations' = invocations + 1

OtherThanRouters ==
    <<hvars, dvars, cvars, svars, rvars, lvars, uvars, pvars, fvars>>

\* The events sent to the subscription Lambda for operations other than
\* cancelSubscription: a preflight, a body that is no JSON, no operation,
\* an operation the router does not know, getSubscription and
\* createSubscription requests.
SubscriptionEvents ==
    { ApiEvent("OPTIONS", TRUE, Missing,
               SubscriptionData(Missing, Missing, "absent", Missing)),
      ApiEvent("POST", FALSE, "getSubscription",
               SubscriptionData("a1", "s1", "absent", Missing)),
      ApiEvent("GET", TRUE, Missing,
               SubscriptionData("a1", "s1", "absent", Missing)),
      ApiEvent("POST", TRUE, "renewSubscription",
               SubscriptionData("a1", "s1", "absent", Missing)) }
    \cup { ApiEvent("GET", TRUE, "getSubscription",
                    SubscriptionData(a, s, "absent", Missing)) :
             a \in Accounts \cup {Missing}, s \in {"s1", Missing} }
    \cup { ApiEvent("POST", TRUE, "createSubscription",
                    SubscriptionData(a, Missing, "absent", plan)) :
             a \in {"a1", Missing}, plan \in {"basic", Missing} }

\* The cancelSubscription requests: a JSON body holds a boolean or no
\* immediateEffect, a query string holds a string.
CancelEvents ==
    { ApiEvent("POST", TRUE, "cancelSubscription",
               SubscriptionData(a, s, i, "basic")) :
        a \in Accounts \cup {Missing},
        s \in SubscriptionIds \cup {Missing},
        i \in {"absent", "False", "True"} }
    \cup { ApiEvent("GET", TRUE, "cancelSubscription",
                    SubscriptionData("a1", s, i, "basic")) :
             s \in SubscriptionIds, i \in {"'false'", "''"} }

WatchlistEvents ==
    { ApiEvent("OPTIONS", TRUE, Missing, [accountId |-> Missing]),
      ApiEvent("GET", FALSE, "getWatchlist", [accountId |-> "a1"]),
      ApiEvent("POST", TRUE, Missing, [accountId |-> "a1"]),
      ApiEvent("POST", TRUE, "clearWatchlist", [accountId |-> "a1"]) }
    \cup { ApiEvent("POST", TRUE, "getWatchlist", [accountId |-> a]) :
             a \in Accounts \cup {Missing} }

CentralEvents ==
    { ApiEvent("OPTIONS", TRUE, Missing, [accountId |-> Missing]),
      ApiEvent("GET", FALSE, "getWatchlist", [accountId |-> "a1"]),
      ApiEvent("POST", TRUE, Missing, [accountId |-> "a1"]),
      ApiEvent("POST", TRUE, "getWatchlist", [accountId |-> "a1"]),
      ApiEvent("POST", TRUE, "createProfile", [accountId |-> "a1"]) }

\* A request other than cancelSubscription reaches the subscription
\* Lambda.
SubscriptionLambda ==
    /\ invocations < MaxInvocations
    /\ \E ev \in SubscriptionEvents, fault \in BOOLEAN :
          Invoked("subscription", ev, fault,
                  subscription_lambda_handler(subscription_table, ev,
                                              fault))
    /\ UNCHANGED OtherThanRouters

\* A cancelSubscription request reaches the subscription Lambda.
CancelSubscription ==
    /\ invocations < MaxInvocations
    /\ \E ev \in CancelEvents, fault \in BOOLEAN :
          Invoked("subscription", ev, fault,
                  subscription_lambda_handler(subscription_table, ev,
                                              fault))
    /\ UNCHANGED OtherThanRouters

WatchlistLambda ==
    /\ invocations < MaxInvocations
    /\ \E ev \in WatchlistEvents, fault \in BOOLEAN :
          Invoked("watchlist", ev, fault,
                  watchlist_lambda_handler(subscription_table, ev, fault))
    /\ UNCHANGED OtherThanRouters

CentralLambda ==
    /\ invocations < MaxInvocations
    /\ \E ev \in CentralEvents, fault \in BOOLEAN :
          Invoked("central", ev, fault,
                  central_lambda_handler(subscription_table, ev, fault))
    /\ UNCHANGED OtherThanRouters

NextRouters ==
    SubscriptionLambda \/ CancelSubscription \/ WatchlistLambda
        \/ CentralLambda

SpecRouters == InitRouters /\ [][NextRouters]_vars

\* -------------------------------------------------- Profile AI Lambda
\* handle_provide_recommendation_feedback of lambda_handler_profile_ai.py.
\* The largest number of provideRecommendationFeedback calls.
MaxFeedbacks == 3

\* The length feedbackHistory is cut to.
HistoryLimit == 50

RatedMovies == {"m1", "m2"}

\* The feedback objects a client sends; the empty one is falsy.
FeedbackObjects == {[liked |-> FALSE], <<>>}

\* The lengths of the feedbackHistory lists stored at the start.
StoredLengths == {0, HistoryLimit - 1, HistoryLimit}

\* A stored feedbackHistory of n entries, newest first: the entry at
\* index k was recorded at time n - k + 1.
StoredHistory(n) ==
    [k \in 1..n |->
        [movieId |-> "m0", timestamp |-> n - k + 1,
         feedback |-> [liked |-> TRUE]]]

\* An item of PROFILE_AI_TABLE without a feedbackHistory, as
\* updateAiPreferences writes it.
StoredPreferences(p) ==
    [accountId |-> AccountId, profileId |-> p, updatedAt |-> "created"]

\* preferences['feedbackHistory'] after lines 552-553.
HistoryOf(item) ==
    IF "feedbackHistory" \in DOMAIN item THEN item.feedbackHistory ELSE <<>>

\* preferences['feedbackHistory'][-50:]
keep_first_50_Tail(history) ==
    IF Len(history) > HistoryLimit
    THEN SubSeq(history, Len(history) - HistoryLimit + 1, Len(history))
    ELSE history

\* Lines 564-565: preferences['feedbackHistory'][:50] when longer than 50.
keep_first_50(history) ==
    IF Len(history) > HistoryLimit
    THEN SubSeq(history, 1, HistoryLimit)
    ELSE history

feedback_entry(data, now) ==
    [movieId |-> data.movieId, timestamp |-> now,
     feedback |-> data.feedback]

\* The preferences of lines 536-549, without the algorithmSettings and
\* the genre lists.
DefaultPreferences(data, now) ==
    [accountId |-> data.accountId, profileId |-> data.profileId,
     createdAt |-> now]

\* preferences after line 568.
Recorded(preferences, data, now) ==
    With(With(preferences, "feedbackHistory",
              keep_first_50(<<feedback_entry(data, now)>>
                                \o HistoryOf(preferences))),
         "updatedAt", now)

\* The defaults hold the floats noveltyWeight and popularityWeight 0.5;
\* floats says whether the store's serializer takes them. When it raises
\* TypeError the last except clause answers and nothing is stored.
handle_provide_recommendation_feedback(table, data, now, fault, floats) ==
    IF data.accountId = Missing
    THEN [table |-> table,
          result |-> Error("Missing required parameter: accountId", 400)]
    ELSE IF data.profileId = Missing
    THEN [table |-> table,
          result |-> Error("Missing required parameter: profileId", 400)]
    ELSE IF data.movieId = Missing
    THEN [table |-> table,
          result |-> Error("Missing required parameter: movieId", 400)]
    ELSE IF data.feedback = <<>>
    THEN [table |-> table,
          result |-> Error("Missing required parameter: feedback", 400)]
    ELSE IF fault
    THEN [table |-> table, result |-> DatabaseError]
    ELSE IF table[data.profileId] = NoItem /\ ~floats
    THEN [table |-> table,
          result |-> Error("An unexpected error occurred", 500)]
    ELSE [table |->
            [table EXCEPT ![data.profileId] =
                Recorded(IF @ = NoItem
                         THEN DefaultPreferences(data, now)
                         ELSE @,
                         data, now)],
          result |->
            [message |-> "Recommendation feedback recorded successfully",
             movieId |-> data.movieId, profileId |-> data.profileId]]

\* Profile p1 has no item, an item without a feedbackHistory, or an item
\* whose feedbackHistory has one of the stored lengths; profile p2 has no
\* item or a full feedbackHistory.
InitFeedback ==
    /\ \E first \in {NoItem, StoredPreferences("p1")}
                     \cup {With(StoredPreferences("p1"), "feedbackHistory",
                                StoredHistory(n)) : n \in StoredLengths},
          second \in {NoItem,
                      With(StoredPreferences("p2"), "feedbackHistory",
                           StoredHistory(HistoryLimit))} :
          ai_table = [p \in ProfileIds |->
                         IF p = "p1" THEN first ELSE second]
    /\ clock = HistoryLimit
    /\ recorded = [p \in ProfileIds |-> <<>>]
    /\ feedback_result = <<>>
    /\ feedbacks = 0
    /\ IdleH /\ IdleD /\ IdleC /\ IdleS /\ IdleR /\ IdleL /\ IdleU
    /\ IdleP /\ IdleA

\* One provideRecommendationFeedback call; the clock is the time
\* datetime.utcnow() reads, later at every call.
ProvideRecommendationFeedback ==
    /\ feedbacks < MaxFeedbacks
    /\ \E a \in {AccountId, Missing}, p \in ProfileIds \cup {Missing},
          m \in RatedMovies \cup {Missing}, f \in FeedbackObjects,
          fault \in BOOLEAN, floats \in BOOLEAN :
       \E data \in {[accountId |-> a, profileId |-> p, movieId |-> m,
                     feedback |-> f]} :
       \E h \in {handle_provide_recommendation_feedback(
                     ai_table, data, clock + 1, fault, floats)} :
          /\ ai_table' = h.table
          /\ feedback_result' = h.result
          /\ recorded' = IF Succeeded(h.result)
                         THEN [recorded EXCEPT
                                  ![p] = feedback_entry(data, clock + 1)]
                         ELSE recorded
    /\ clock' = clock + 1
    /\ feedbacks' = feedbacks + 1
    /\ UNCHANGED <<hvars, dvars, cvars, svars, rvars, lvars, uvars, pvars,
                   avars>>

NextFeedback == ProvideRecommendationFeedback

SpecFeedback == InitFeedback /\ [][NextFeedback]_vars

\* ---------------------------------------------- claims: hierarchy
HasUnresolvedParent(i) ==
    /\ items[i].parent_id # NoParent
    /\ items[i].parent_id[1] \notin DOMAIN items

\* C1: after build_hierarchy, every item whose parent_id is set but names
\* no item of the mapping is in the returned roots.
C1_UnresolvedParentIsRoot ==
    runs >= 1 =>
        \A i \in DOMAIN items : HasUnresolvedParent(i) => i \in Range(roots)

\* Items reachable from the returned roots through children lists.
RECURSIVE ReachFrom(_, _)
ReachFrom(frontier, seen) ==
    IF frontier \subseteq seen THEN seen
    ELSE LET new == frontier \ seen
             nxt == UNION {Range(items[i].children) : i \in new}
         IN ReachFrom(nxt, seen \cup new)

InForest == ReachFrom(Range(roots), {})

Count(s, x) == Cardinality({k \in 1..Len(s) : s[k] = x})

RECURSIVE SumOver(_, _)
SumOver(S, x) ==
    IF S = {} THEN 0
    ELSE LET p == CHOOSE q \in S : TRUE
         IN Count(items[p].children, x) + SumOver(S \ {p}, x)

\* How often item x occurs in the forest: as a root, or as a child of a
\* node of the forest.
Occurrences(x) == Count(roots, x) + SumOver(InForest, x)

\* The item k steps up the parent chain of i, or 0 where the chain ends
\* (no parent, or a parent that is not in the mapping).
RECURSIVE AncestorAt(_, _)
AncestorAt(i, k) ==
    IF k = 0 THEN i
    ELSE LET a == AncestorAt(i, k - 1) IN
         IF a = 0 \/ items[a].parent_id = NoParent
            \/ items[a].parent_id[1] \notin DOMAIN items
         THEN 0
         ELSE items[a].parent_id[1]

OnParentCycle(i) == \E k \in 1..Cardinality(DOMAIN items) : AncestorAt(i, k) = i

\* C2: after one build_hierarchy pass over a freshly loaded mapping, each
\* item occurs exactly once in the forest reachable from the roots. Stated
\* for the mappings without a parent cycle, the ones for which the
\* specification defines the result.
C2_EachItemExactlyOnce ==
    (runs = 1 /\ \A i \in DOMAIN items : ~OnParentCycle(i)) =>
        \A i \in DOMAIN items : Occurrences(i) = 1

IsExample ==
    /\ items[1].type = "Feature" /\ items[1].parent_id = NoParent
    /\ items[2].type = "Task" /\ items[2].parent_id = <<1>>
    /\ items[3].type = "User Story" /\ items[3].parent_id = <<1>>
    /\ \A i \in DOMAIN items \ {1, 2, 3} :
          items[i].parent_id \notin {NoParent, <<1>>}

Rank(i) ==
    IF items[i].type = "Feature" THEN 1
    ELSE IF items[i].type = "User Story" THEN 2
    ELSE IF items[i].type = "Task" THEN 3
    ELSE 99

\* C3: after build_hierarchy the roots ascend by id and every item's
\* children ascend by (type rank, id); in the example of a Feature 1 with
\* children Task 2 and User Story 3 the roots are [1] and its children [3, 2].
C3_ForestOrdered ==
    runs >= 1 =>
        /\ \A j, k \in 1..Len(roots) : j < k => roots[j] < roots[k]
        /\ \A i \in DOMAIN items :
              LET ch == items[i].children IN
              \A j, k \in 1..Len(ch) : j < k =>
                  \/ Rank(ch[j]) < Rank(ch[k])
                  \/ Rank(ch[j]) = Rank(ch[k]) /\ ch[j] <= ch[k]
        /\ (IsExample /\ runs = 1) =>
              roots = <<1>> /\ items[1].children = <<3, 2>>

C3_Witness ==
    /\ runs = 1
    /\ IsExample
    /\ order = Reverse(Ascending(ItemIds))
    /\ roots = <<1>>
    /\ items[1].children = <<3, 2>>

\* C4: a second build_hierarchy pass over the same mapping returns the
\* roots and the children lists of the first pass.
C4_SecondPassSame ==
    runs >= 2 => Result(items, roots) = prev

\* The items format_work_item is called on at recursion depth k, starting
\* from the calls on the roots (generate_documentation, lines 220-221).
RECURSIVE VisitedAt(_)
VisitedAt(k) ==
    IF k = 0 THEN Range(roots)
    ELSE UNION {Range(items[i].children) : i \in VisitedAt(k - 1)}

\* A descent deeper than the number of items repeats an item, and then
\* never ends; a descent that ends does so within that many levels.
RenderingTerminates == VisitedAt(Cardinality(DOMAIN items)) = {}

\* C21: after build_hierarchy, whatever the parent ids (a parent cycle and
\* an item that is its own parent included), no item on a parent cycle is
\* reachable from a root, and format_work_item applied to the roots
\* descends finitely many levels.
C21_RenderingTerminates ==
    runs >= 1 =>
        /\ \A i \in InForest : ~OnParentCycle(i)
        /\ RenderingTerminates

SelfParent(i) == items[i].parent_id = <<i>>

C21_Witness ==
    /\ runs >= 1
    /\ \E i \in DOMAIN items : SelfParent(i)
    /\ \E i \in DOMAIN items : i \notin InForest /\ ~SelfParent(i)
    /\ roots # <<>>

\* ------------------------------------------ claims: change detector
\* The value of field n in a stored record; None when the field is absent.
ValueIn(rec, n) == IF n \in DOMAIN rec.fields THEN rec.fields[n] ELSE None

\* The tracked fields whose values differ between the two versions of file f.
Differing(f) ==
    {n \in TrackedFields : ValueIn(download[f], n) # ValueIn(snapshot[f], n)}

CurrentItems == {f \in DOMAIN download : EndsWithJson(f)}

InBoth == CurrentItems \cap DOMAIN snapshot

RecordsFor(id) == {k \in 1..Len(changes) : changes[k].id = id}

\* C5: for an item in both directories, detect_changes emits a record
\* exactly when some tracked field differs, and the record maps exactly the
\* differing tracked fields to their current values; an absent field differs
\* from a present value.
C5_ChangedFieldsExact ==
    detected =>
        \A f \in InBoth :
            /\ Differing(f) = {} => RecordsFor(IdOf(f)) = {}
            /\ Differing(f) # {} =>
                  /\ Cardinality(RecordsFor(IdOf(f))) = 1
                  /\ \A k \in RecordsFor(IdOf(f)) :
                        /\ DOMAIN changes[k].changes = Differing(f)
                        /\ \A n \in Differing(f) :
                              changes[k].changes[n] = ValueIn(download[f], n)
            /\ \A n \in TrackedFields :
                  (/\ n \in DOMAIN download[f].fields
                   /\ download[f].fields[n] # None
                   /\ n \notin DOMAIN snapshot[f].fields)
                  => \E k \in RecordsFor(IdOf(f)) :
                        n \in DOMAIN changes[k].changes
            /\ \A n \in TrackedFields :
                  (/\ n \in DOMAIN snapshot[f].fields
                   /\ snapshot[f].fields[n] # None
                   /\ n \notin DOMAIN download[f].fields)
                  => \E k \in RecordsFor(IdOf(f)) :
                        /\ n \in DOMAIN changes[k].changes
                        /\ changes[k].changes[n] = None

\* Two tracked fields of one item differ, one of them absent in the snapshot.
C5_Witness ==
    /\ detected
    /\ \E f \in InBoth :
          /\ Cardinality(Differing(f)) = 2
          /\ \E n \in Differing(f) :
                n \notin DOMAIN snapshot[f].fields /\ ValueIn(download[f], n) # None
          /\ \E k \in RecordsFor(IdOf(f)) :
                DOMAIN changes[k].changes = Differing(f)

AllTrackedEqual ==
    \A f \in CurrentItems :
        /\ f \in DOMAIN snapshot
        /\ \A n \in TrackedFields :
              ValueIn(download[f], n) = ValueIn(snapshot[f], n)

\* C6: when every current item has a snapshot counterpart equal on all
\* tracked fields, detect_changes emits nothing, whatever the untracked
\* fields hold.
C6_NoChangeNoRecord == (detected /\ AllTrackedEqual) => changes = <<>>

\* Every item equal on its tracked fields while an untracked field differs.
C6_Witness ==
    /\ detected
    /\ AllTrackedEqual
    /\ changes = <<>>
    /\ \E f \in CurrentItems, n \in UntrackedFields :
          ValueIn(download[f], n) # ValueIn(snapshot[f], n)

OnlyCurrent == CurrentItems \ DOMAIN snapshot

\* C7: for a current item with no snapshot counterpart detect_changes emits
\* one record holding all five tracked fields with their current values.
C7_NewItemAllFields ==
    detected =>
        \A f \in OnlyCurrent :
            /\ Cardinality(RecordsFor(IdOf(f))) = 1
            /\ \A k \in RecordsFor(IdOf(f)) :
                  /\ DOMAIN changes[k].changes = TrackedFields
                  /\ Cardinality(DOMAIN changes[k].changes) = 5
                  /\ \A n \in TrackedFields :
                        changes[k].changes[n] = ValueIn(download[f], n)

\* A new item, with a tracked field it does not hold, was detected.
C7_Witness ==
    /\ detected
    /\ \E f \in OnlyCurrent :
          /\ \E n \in TrackedFields : n \notin DOMAIN download[f].fields
          /\ RecordsFor(IdOf(f)) # {}

TitleAndState(title, state) ==
    [n \in {"System.Title", "System.State"} |->
        IF n = "System.Title" THEN title ELSE state]

\* The scenario of the example: item 10 is {title A, state New} in current
\* and {title A, state Done} in the snapshot, and no other item changed.
IsScenario ==
    /\ 1 \in InBoth
    /\ download[1] = [id |-> 10, fields |-> TitleAndState("A", "New")]
    /\ snapshot[1] = [id |-> 10, fields |-> TitleAndState("A", "Done")]
    /\ \A f \in CurrentItems \ {1} :
          f \in DOMAIN snapshot /\ Differing(f) = {}

\* C8 as claimed: in the scenario detect_changes emits one record, for id
\* 10, with changedFields {state: "Done"}.
C8_StateDone ==
    (detected /\ IsScenario) =>
        changes = <<[id |-> 10,
                     changes |-> [n \in {"System.State"} |-> "Done"]]>>

\* C8 amended: in the scenario detect_changes emits one record, for id 10,
\* with changedFields {state: "New"}, the value in current.
C8_StateNew ==
    (detected /\ IsScenario) =>
        changes = <<[id |-> 10,
                     changes |-> [n \in {"System.State"} |-> "New"]]>>

C8_Witness == detected /\ IsScenario /\ Len(changes) = 1

ChangeIds == [k \in 1..Len(changes) |-> changes[k].id]

Emitted(f) == EndsWithJson(f) /\ IdOf(f) \in Range(ChangeIds)

ListedIds(ls) == [k \in 1..Len(ls) |-> IdOf(ls[k])]

\* C9: the ids of the emitted records are the ids of the listed current
\* items that got a record, in listing order and once each; an item that is
\* only in the snapshot gets none.
C9_OrderAndNoDeleted ==
    detected =>
        /\ ChangeIds = ListedIds(SelectSeq(listing, Emitted))
        /\ \A j, k \in 1..Len(changes) : j # k => changes[j].id # changes[k].id
        /\ \A f \in DOMAIN snapshot \ DOMAIN download :
              RecordsFor(IdOf(f)) = {}

\* Two records emitted in a descending listing while a deleted item is
\* only in the snapshot.
C9_Witness ==
    /\ detected
    /\ Len(changes) = 2
    /\ changes[1].id > changes[2].id
    /\ DOMAIN snapshot \ DOMAIN download # {}

\* ---------------------------------------- claims: fetch and update
AllReturnedTrue == \A k \in 1..Len(calls) : calls[k].ok

\* C22: ADO_Update.main prints 'All updates completed successfully!' and
\* starts the refresh fetch only when every update_work_item call of the
\* run returned True.
C22_RefreshOnlyAfterSuccess ==
    (refreshed \/ AllCompleted \in Range(printed)) => AllReturnedTrue

FetchRan == fetches' # fetches

\* C24: a run of ADO_Fetch.main that completes without error leaves a
\* snapshot directory equal to the download directory, so that detect_changes
\* on what it left returns an empty list.
C24_SnapshotEqualsDownload ==
    [][(FetchRan /\ fetched' = "completed") =>
          /\ snapshot' = download'
          /\ \A ls \in ListingOrders(DOMAIN download') :
                detect_changes(download', snapshot', ls) = <<>>]_vars

\* A completed fetch, and a run of ADO_Update.main on what it left that
\* found nothing.
C24_Witness ==
    /\ fetches = 1
    /\ fetched = "completed"
    /\ snapshot = download
    /\ download = [f \in FetchedFiles |-> FetchedRecord(f)]
    /\ printed = <<NoChanges>>

\* C25: a run of ADO_Fetch.main in which the listing or the fetch of a
\* work item raises leaves the snapshot directory as it was, and a download
\* directory that was cleared and holds the items saved before the failure.
C25_SnapshotKeptOnFailure ==
    [][(FetchRan /\ fetched' \in {"listing", "fetch"}) =>
          /\ snapshot' = snapshot
          /\ DOMAIN download' \subseteq DOMAIN remote'
          /\ DOMAIN download' # DOMAIN remote']_vars

\* A failed run after a completed one: the snapshot outlives the cleared
\* download directory.
C25_Witness ==
    /\ fetches = 2
    /\ fetched = "fetch"
    /\ snapshot = [f \in FetchedFiles |-> FetchedRecord(f)]
    /\ DOMAIN download = {1}

\* -------------------------------------------- claims: profile settings
\* What verifyProfilePin answers for profile p and pin, the store working.
Verification(p, pin) ==
    handle_verify_profile_pin(
        settings_table, DataOf(AccountId, p, pin, <<>>, <<>>), FALSE).result

\* C27: once setProfilePin has succeeded for a profile, verifyProfilePin
\* with the pin set last answers verified = true, whatever
\* getProfileSettings, updateProfileSettings and updateContentRestrictions
\* calls came in between.
C27_PinSurvives ==
    \A p \in ProfileIds :
        pins[p] # Missing => Verification(p, pins[p]).verified

\* ----------------------------------------------------- claims: routers
\* C28: when an operation handler returned a result, the HTTP response of
\* lambda_handler carries the result's statusCode, and carries 200 only
\* when the result has none.
C28_StatusCodeCarried ==
    handler_result # NoHandlerResult =>
        http_response.statusCode =
            IF "statusCode" \in DOMAIN handler_result
            THEN handler_result.statusCode
            ELSE 200

\* The step is a cancelSubscription request that reached its handler.
CancelRan ==
    /\ invocations' # invocations
    /\ api_event'.operation = "cancelSubscription"
    /\ handler_result' # NoHandlerResult

\* The status cancelSubscription is to set for the request's
\* immediateEffect.
StatusFor(i) ==
    IF i \in {"True", "'false'"} THEN "cancelled" ELSE "pending_cancellation"

\* C29: cancelSubscription on a stored subscription whose status is
\* 'cancelled' answers 400 with an error and leaves the table as it was;
\* on any other stored subscription, when the store does not raise, it
\* sets the status to 'cancelled' for a truthy immediateEffect and to
\* 'pending_cancellation' otherwise and touches no other subscription;
\* and no cancelSubscription step takes a subscription out of 'cancelled'.
C29_CancelledStays ==
    [][CancelRan =>
         /\ \A s \in SubscriptionIds :
               (subscription_table[s] # NoItem
                    /\ subscription_table[s].status = "cancelled")
                 => /\ subscription_table'[s] # NoItem
                    /\ subscription_table'[s].status = "cancelled"
         /\ \A s \in SubscriptionIds :
               (/\ api_event'.data.subscriptionId = s
                /\ ~store_raised'
                /\ GetItem(subscription_table, api_event'.data.accountId,
                           s) # NoItem)
                 => IF subscription_table[s].status = "cancelled"
                    THEN /\ http_response'.statusCode = 400
                         /\ "error" \in DOMAIN http_response'.body
                         /\ subscription_table' = subscription_table
                    ELSE /\ subscription_table'[s].status =
                                StatusFor(api_event'.data.immediateEffect)
                         /\ http_response'.statusCode = 200
                         /\ \A o \in SubscriptionIds \ {s} :
                               subscription_table'[o] =
                                   subscription_table[o]
    ]_vars

\* A cancelSubscription request for a cancelled subscription was refused
\* while the other subscription is pending cancellation.
C29_Witness ==
    /\ invocations > 0
    /\ lambda_name = "subscription"
    /\ api_event.operation = "cancelSubscription"
    /\ http_response.statusCode = 400
    /\ \E s \in SubscriptionIds :
          /\ api_event.data.subscriptionId = s
          /\ subscription_table[s] # NoItem
          /\ subscription_table[s].status = "cancelled"
          /\ \E o \in SubscriptionIds \ {s} :
                /\ subscription_table[o] # NoItem
                /\ subscription_table[o].status = "pending_cancellation"

\* ------------------------------------------------- claims: profile AI
NewestFirst(history) ==
    \A i, j \in 1..Len(history) :
        i < j => history[i].timestamp > history[j].timestamp

\* The stored feedbackHistory of every profile has at most 50 entries, is
\* ordered newest first and starts with the feedback recorded last.
HistoryKept ==
    \A p \in ProfileIds :
        /\ Len(HistoryOf(ai_table[p])) <= 50
        /\ NewestFirst(HistoryOf(ai_table[p]))
        /\ recorded[p] # <<>> =>
              /\ Len(HistoryOf(ai_table[p])) >= 1
              /\ HistoryOf(ai_table[p])[1] = recorded[p]

\* A recorded feedback is put before the stored entries, of which the
\* oldest is dropped when there were 50.
OldestDropped ==
    \A p \in ProfileIds :
        recorded'[p] # recorded[p] =>
            HistoryOf(ai_table'[p]) =
                <<recorded'[p]>> \o
                    IF Len(HistoryOf(ai_table[p])) >= 50
                    THEN SubSeq(HistoryOf(ai_table[p]), 1, 49)
                    ELSE HistoryOf(ai_table[p])

C10_CleanIdempotent == Len(outs) >= 2 => outs[2] = outs[1]

\* The numeric entity of the first number that is not a code point.
InvalidEntity == <<"&", "#", "1", "1", "1", "4", "1", "1", "2", ";">>

\* C11: clean_html never raises on a numeric entity: an entity whose number
\* is not a valid code point is left verbatim in the result, and a valid one
\* is replaced by the character with that code point.
C11_NumericEntityFailsOpen ==
    Len(outs) >= 1 =>
        /\ outs[1] # ValueError
        /\ text = InvalidEntity => outs[1] = InvalidEntity
        /\ text = <<"&", "#", "6", "0", ";">> => outs[1] = <<"<">>

\* The numeric entity step as specified: a number that is a code point is
\* replaced by its character, any other entity is left as it is.
RECURSIVE DecodeValidNumeric(_)
DecodeValidNumeric(t) ==
    IF t = <<>> THEN <<>>
    ELSE LET m == NumericMatch(t) IN
         IF m > 0 /\ IntOf(SubSeq(t, 3, m - 1), 0) <= MaxCodePoint
         THEN <<Chr(IntOf(SubSeq(t, 3, m - 1), 0))>>
                  \o DecodeValidNumeric(Drop(t, m))
         ELSE <<t[1]>> \o DecodeValidNumeric(Tail(t))

\* The specified pipeline: tags removed, the six named entities decoded,
\* numeric entities decoded, then the white space normalised by paragraphs.
SpecifiedPipeline(t) ==
    IF t = <<>> THEN <<>>
    ELSE NormalizeWhitespace(DecodeValidNumeric(ReplaceEntities(StripTags(t), 1)))

\* C12: for every input clean_html returns what the specified pipeline
\* gives; the empty input gives the empty text, and the two HTML paragraphs
\* 'Hello &amp; welcome' and 'Line two' give 'Hello & welcome\n\nLine two'.
C12_EqualsPipeline ==
    Len(outs) >= 1 =>
        /\ outs[1] = SpecifiedPipeline(text)
        /\ text = <<>> => outs[1] = <<>>
        /\ text = HtmlParagraphs =>
              outs[1] = <<"H", "e", "l", "l", "o", " ", "&", " ", "w", "e", "l",
                          "c", "o", "m", "e", "\n", "\n", "L", "i", "n", "e",
                          " ", "t", "w", "o">>

\* ------------------------------------- claims: headings and sections
\* Whether the line starts with 1 to 6 '#' characters followed by white space.
IsHeadingLine(line) ==
    \E h \in 1..6 :
        /\ Len(line) > h
        /\ \A k \in 1..h : line[k] = "#"
        /\ line[h + 1] \in WhiteSpace

MarkerLength(line) ==
    CHOOSE h \in 1..6 : (\A k \in 1..h : line[k] = "#") /\ line[h + 1] # "#"

\* The line as the normalizer is to leave it.
Rewritten(line) ==
    IF IsHeadingLine(line)
    THEN <<"*", "*", "S", "e", "c", "t", "i", "o", "n", ":", " ">>
             \o lstrip(Drop(line, MarkerLength(line))) \o <<"*", "*">>
    ELSE line

\* The trimmed lines of a text, the blank ones dropped.
TrimmedLines(t) ==
    LET ls == splitlines(t)
        nonblank == {k \in 1..Len(ls) : strip(ls[k]) # <<>>}
    IN [j \in 1..Cardinality(nonblank) |->
           strip(ls[CHOOSE k \in nonblank :
                       Cardinality({i \in nonblank : i <= k}) = j])]

\* C17: clean_markdown_headers returns the trimmed non-blank lines of its
\* input joined by single newlines, a line that starts with 1 to 6 '#'
\* followed by white space rewritten to '**Section: <remaining text>**' and
\* every other line ('---', '- ...', seven '#') unchanged.
C17_HeadingsNormalized ==
    normalized # <<>> =>
        LET ls == TrimmedLines(content) IN
        normalized[1] = Join([k \in 1..Len(ls) |-> Rewritten(ls[k])], <<"\n">>)

\* A blank line dropped and a heading rewritten.
C17_Witness ==
    /\ content = <<"\n", "#", " ", "x">>
    /\ normalized = <<<<"*", "*", "S", "e", "c", "t", "i", "o", "n", ":",
                    " ", "x", "*", "*">>>>

\* The non-empty paragraphs of the normalized content.
SectionParagraphs(c) ==
    LET ps == Split(clean_markdown_headers(c), <<"\n", "\n">>) IN
    SelectSeq([k \in 1..Len(ps) |-> strip(ps[k])], NonEmpty)

\* The lines a paragraph is to give: its lines behind the indent when it
\* starts with a bullet marker, its non-empty lines behind '<indent>> '
\* otherwise, then one empty line.
ExpectedBlock(para, ind) ==
    LET ls == splitlines(para) IN
    IF StartsWith(para, <<"-", " ">>) \/ StartsWith(para, <<"*", " ">>)
    THEN [k \in 1..Len(ls) |-> ind \o ls[k]] \o << <<>> >>
    ELSE [k \in 1..Len(SelectSeq(ls, NonEmpty)) |->
             ind \o <<">", " ">> \o SelectSeq(ls, NonEmpty)[k]] \o << <<>> >>

RECURSIVE ExpectedBlocks(_, _)
ExpectedBlocks(paras, ind) ==
    IF paras = <<>> THEN <<>>
    ELSE ExpectedBlock(paras[1], ind) \o ExpectedBlocks(Tail(paras), ind)

\* C16: format_section_content returns, for the paragraphs of the
\* normalized content in order, each paragraph's lines (behind the indent for
\* a bullet paragraph, behind '<indent>> ' otherwise) followed by one empty
\* line; white-space-only content gives no line.
C16_SectionFormatted ==
    section # <<>> =>
        /\ section[1] = ExpectedBlocks(SectionParagraphs(content), indent)
        /\ strip(content) = <<>> => section[1] = <<>>

\* A bullet paragraph of two lines at indent two.
C16_Witness ==
    /\ content = <<"*", " ", "x", "\n", "x">>
    /\ indent = <<" ", " ">>
    /\ section = << << <<" ", " ", "*", " ", "x">>, <<" ", " ",
                    "x">>, <<>> >> >>

\* The lines of text c that hold more than white space.
NonBlankLines(c) ==
    LET ls == splitlines(c) IN
    SelectSeq([k \in 1..Len(ls) |-> strip(ls[k])], NonEmpty)

\* C26: for a content with a non-blank line, format_section_content ends
\* with an empty string and holds no other one: the whole content comes out
\* as one paragraph, one line per non-blank line, whatever blank lines
\* separated them.
C26_SingleParagraph ==
    (section # <<>> /\ NonBlankLines(content) # <<>>) =>
        LET out == section[1] IN
        /\ Len(out) = Len(NonBlankLines(content)) + 1
        /\ out[Len(out)] = <<>>
        /\ \A k \in 1..(Len(out) - 1) : out[k] # <<>>

\* Two paragraphs of the input come out as one.
C26_Witness ==
    /\ content = <<"x", "\n", "\n", "x">>
    /\ indent = <<>>
    /\ section = << << <<">", " ", "x">>, <<">", " ", "x">>, <<>> >> >>

\* ------------------------------------------------- claims: renderer
\* Whether text t holds text sub.
Contains(t, sub) ==
    \E k \in 1..(Len(t) - Len(sub) + 1) : SubSeq(t, k, k + Len(sub) - 1) = sub

\* C13: the acceptance criteria 'Given X\nWhen Y\n\nThen Z' of an item
\* formatted at level 1 (indent of two spaces) give the bullet line
\* '  - Given X', its continuation line '    When Y' and the bullet line
\* '  - Then Z', in a row.
C13_CriteriaContinuation ==
    (/\ block # <<>>
     /\ level = 1
     /\ GetOr(records[node].fields,
              "Microsoft.VSTS.Common.AcceptanceCriteria", <<>>) = GivenWhenThen)
    => Contains(block,
                <<"\n", " ", " ", "-", " ", "G", "i", "v", "e", "n", " ",
                  "X", "\n", " ", " ", " ", " ", "W", "h", "e", "n", " ",
                  "Y", "\n", " ", " ", "-", " ", "T", "h", "e", "n", " ",
                  "Z", "\n">>)

\* Whether text t ends with text suffix.
EndsWith(t, suffix) ==
    Len(t) >= Len(suffix)
    /\ SubSeq(t, Len(t) - Len(suffix) + 1, Len(t)) = suffix

\* Whether the first lines of text t are the lines l1, l2 and an empty line.
StartsWithHeader(t, l1, l2) ==
    LET head == l1 \o <<"\n">> \o l2 \o <<"\n">> IN
    /\ StartsWith(t, head)
    /\ Len(t) > Len(head) => t[Len(head) + 1] = "\n"

\* The blocks of the children of item i, which is formatted at level d.
ChildBlocks(i, d) ==
    [k \in 1..Len(items[i].children) |->
        format_work_item(items, items[i].children[k], d + 1)]

\* The lines of item i's own description and acceptance criteria at level d.
OwnLines(i, d) == DescriptionLines(items[i], d) \o CriteriaLines(items[i], d)

\* C14: the block of a node at depth d starts with the line of 2*d spaces,
\* d+1 '#', a space and the title, the line of 2*d spaces and
\* '*<type> #<id>*' and an empty line, and ends with the blocks of the
\* node's children at depth d+1, in children order, after the node's own
\* description and acceptance criteria.
C14_BlockShape ==
    block # <<>> =>
        LET item == items[node]
            spaces == [k \in 1..(2 * level) |-> " "]
            markers == [k \in 1..(level + 1) |-> "#"]
            l1 == spaces \o markers \o <<" ">> \o Chars(item.title)
            l2 == spaces \o <<"*">> \o Chars(item.type) \o <<" ", "#">>
                      \o IntStr(item.id) \o <<"*">>
            kids == ChildBlocks(node, level)
        IN /\ StartsWithHeader(block, l1, l2)
           /\ block = Join(<<l1, l2, <<>> >> \o OwnLines(node, level) \o kids,
                           <<"\n">>)
           /\ kids # <<>> => EndsWith(block, <<"\n">> \o Join(kids, <<"\n">>))

\* A node at depth 1 with a description, formatted with its child at depth 2.
C14_Witness ==
    /\ block # <<>>
    /\ level = 1
    /\ items[node].description # <<>>
    /\ Len(items[node].children) = 1
    /\ EndsWith(block, format_work_item(items, items[node].children[1], 2))

\* The text an item's title or type is to be rendered as: the empty text
\* when the record lacks it.
TextOrEmpty(v) == IF v = None THEN <<>> ELSE Chars(v)

\* C15: generate_documentation writes the document whatever titles and types
\* the records lack, and the header of an item's block holds the empty text
\* for a title or a type that is absent or null.
C15_MissingAsEmpty ==
    /\ runs = 1 => doc # ValueError
    /\ block # <<>> =>
          LET fields == records[node].fields IN
          StartsWithHeader(block,
              Indent(level) \o Hashes(level) \o <<" ">>
                  \o TextOrEmpty(GetOr(fields, "System.Title", "")),
              Indent(level) \o <<"*">>
                  \o TextOrEmpty(GetOr(fields, "System.WorkItemType", ""))
                  \o <<" ", "#">> \o IntStr(node) \o <<"*">>)

\* -------------------------------------------------- claims: handler
\* A request: an event that carries a path and a method.
IsRequest == {"rawPath", "method"} \subseteq DOMAIN event

PostToApi == IsRequest /\ event["rawPath"] = "/api" /\ event["method"] = "POST"

\* The JSON object of the body; the empty object when there is no body.
HasObject == "body" \notin DOMAIN event \/ event["body"].kind = "object"

BodyObject == IF "body" \in DOMAIN event THEN event["body"].value ELSE <<>>

SuccessMessage(action) ==
    CASE action = "get_movie_info" -> "Movie info fetched successfully"
      [] action = "search_movies" -> "Movies searched successfully"
      [] action = "update_user_settings" -> "User settings updated successfully"
      [] action = "get_homepage_data" -> "Homepage data fetched successfully"

\* C20: a POST to '/api' whose body holds a known action and no other field
\* gets statusCode 200 with the success message of that action.
C20_KnownActionSucceeds ==
    (/\ response # <<>>
     /\ PostToApi
     /\ "body" \in DOMAIN event
     /\ event["body"].kind = "object"
     /\ DOMAIN event["body"].value = {"action"}
     /\ event["body"].value["action"] \in KnownActions)
    => response = [statusCode |-> 200,
                   body |-> [k \in {"message"} |->
                                SuccessMessage(event["body"].value["action"])]]

====
